---- MODULE Spec2Model ----
(***************************************************************************)
(* Order settlement of SupermarketAppMVC: Order.create and                 *)
(* Order.createWithWallet (src/models/order.js) and Wallet.creditWithType  *)
(* (src/controllers/UserController.js), run against the one MySQL          *)
(* connection every module obtains with require('../db').                  *)
(*                                                                         *)
(* The connection executes the queries handed to it strictly in the order  *)
(* they were enqueued, and every request of the process shares it: START   *)
(* TRANSACTION, COMMIT and ROLLBACK act on the session, not on the request *)
(* that issued them.  One step of the model executes the query at the head *)
(* of the queue and runs its callback, which enqueues the queries the      *)
(* handler issues next.                                                    *)
(*                                                                         *)
(* Money is counted in mills (1/1000 of a currency unit), so that          *)
(* toFixed(2) is a real rounding: one cent is 10 mills.                    *)
(***************************************************************************)
EXTENDS Integers, Sequences, FiniteSets, TLC

\* ------------------------------------------------------------- bounds
NReq == 2               \* requests in flight in one behaviour
MaxStoreErrors == 1     \* queries the store may fail in one behaviour

MaxLines == 3           \* lines of the longest cart tried

Reqs == 1..NReq
Products == {1, 2}
Users == {1}

\* Number('abc'), Number(undefined): the one non-finite value
NaN == 0 - 999999
IsFinite(x) == x # NaN

\* on-hand quantity and wallet balance when the first request arrives
InitStock == [p \in Products |-> IF p = 1 THEN 5 ELSE 2]
InitBalance == [u \in Users |-> 5000]
InitPrice == [p \in Products |-> 2000]
AccountAddress == "12 Main St"

\* ------------------------------------------------------------- inputs
Line(p, q, pr) == [productId |-> p, quantity |-> q, price |-> pr]

\* carts two concurrent requests are given
ConcCarts ==
    { << Line(1, 3, 2000) >>,
      << Line(1, 3, 2000), Line(1, 3, 2000) >>,
      << Line(1, 1, 2000), Line(2, 1, 1004) >>,
      << Line(2, 1, NaN), Line(1, 3, 2000) >> }
ConcFees == {0, 1500}

\* carts a request that runs alone is given
SeqLines ==
    { Line(1, 1, 2000), Line(1, 3, 2000), Line(2, 1, 1004), Line(2, 3, 1004),
      Line(1, 0, 2000), Line(2, 1, NaN) }
SeqCarts ==
    {<< >>} \cup { << a >> : a \in SeqLines }
            \cup { << a, b >> : a \in SeqLines, b \in SeqLines }
            \cup { << Line(1, 3, 2000), Line(1, 3, 2000), Line(2, 1, 1004) >> }
\* the delivery fees tried, on a few carts only
SeqFees == {1500, 0 - 1500, NaN, 1504}
SeqFeeCarts ==
    { << Line(1, 2, 10000) >>,
      << Line(1, 1, 2000) >>,
      << Line(2, 1, 1004), Line(1, 1, 2000) >> }
SeqOrders ==
    { << cart, 0 >> : cart \in SeqCarts \cup SeqFeeCarts }
        \cup (SeqFeeCarts \X SeqFees)

CreditAmounts == {5000, 0, NaN}
CreditTypes == {"topup", "refund"}
CreditRefs == {"paypal:CAP1"}

\* ------------------------------------------------------------- state
VARIABLES
    committed,  \* the tables as of the last COMMIT of the session
    working,    \* the tables as the session sees them (uncommitted writes included)
    inTxn,      \* the session has an open transaction
    nextId,     \* AUTO_INCREMENT of orders (never rolled back)
    queue,      \* queries enqueued on the connection, head first
    req,        \* per request: its arguments and the locals its callbacks close over
    errBudget,  \* store errors still to come
    ran,        \* per request: the kinds of query it has had executed (bookkeeping)
    fkItems,    \* the schema (not in the sources) has order_items.order_id reference orders.id
    session,    \* req.session of the shopper: cart, pendingCheckout, netsPending, stripePaynow
    provider,   \* the payment providers: per reference, what was asked for and its status
    stream,     \* one payment-status stream: its timer, its polls in flight, its response
    feeCall     \* the last call of computeDeliveryFee: its arguments and its result

\* what the controllers keep outside the store
web == << session, provider, stream, feeCall >>

vars == << committed, working, inTxn, nextId, queue, req, errBudget, ran, fkItems,
           session, provider, stream, feeCall >>

\* ------------------------------------------------------------- pure parts
\* Number(x.toFixed(2)): to the nearest cent, halves away from zero
Round2(x) ==
    IF x >= 0 THEN ((x + 5) \div 10) * 10
              ELSE 0 - ((((0 - x) + 5) \div 10) * 10)

\* cartItems.reduce(...): lines whose price or quantity is not finite add nothing
RECURSIVE TotalBeforeRound(_)
TotalBeforeRound(cart) ==
    IF cart = << >> THEN 0
    ELSE LET item == Head(cart)
         IN  (IF IsFinite(item.price) /\ IsFinite(item.quantity)
                 THEN item.price * item.quantity ELSE 0)
             + TotalBeforeRound(Tail(cart))

OrderTotal(cart) == Round2(TotalBeforeRound(cart))

\* a bug: a negative fee let through
SafeDeliveryFee_NoSignGuard(fee) == IF IsFinite(fee) THEN Round2(fee) ELSE 0

SafeDeliveryFee(fee) == IF IsFinite(fee) /\ fee > 0 THEN Round2(fee) ELSE 0

FinalTotal(cart, fee) == Round2(OrderTotal(cart) + SafeDeliveryFee(fee))

\* the loop over cartItems after the stock SELECT: the first line that fails decides
RECURSIVE StockCheck(_, _)
StockCheck(cart, stock) ==
    IF cart = << >> THEN "ok"
    ELSE LET item == Head(cart)
             requested == item.quantity
             onHand == IF item.productId \in DOMAIN stock THEN stock[item.productId] ELSE 0
         IN  IF ~IsFinite(requested) \/ requested <= 0 THEN "InvalidQuantity"
             ELSE IF onHand < requested THEN "InsufficientStock"
             ELSE StockCheck(Tail(cart), stock)

\* a bug: the price of a line not validated
LineCheck_NoPrice(item) ==
    IF ~IsFinite(item.quantity) \/ item.quantity <= 0 THEN "InvalidQuantity" ELSE "ok"

\* the executor of one item promise, before it issues any query
LineCheck(item) ==
    IF ~IsFinite(item.quantity) \/ item.quantity <= 0 THEN "InvalidQuantity"
    ELSE IF ~IsFinite(item.price) THEN "InvalidPrice"
    ELSE "ok"

\* a bug: the UPDATE without its guard (quantity = quantity - ? WHERE id = ?)
StockUpdateApplies_Unguarded(onHand, quantity) == TRUE

\* UPDATE products SET quantity = quantity - ? WHERE id = ? AND quantity >= ?
StockUpdateApplies(onHand, quantity) == onHand >= quantity

\* a bug: the comparison with the total left out
FundsInsufficient_NoCompare(currentBalance, finalTotal) == ~IsFinite(currentBalance)

\* a bug: an empty wallet refused, the total not looked at
FundsInsufficient_ZeroOnly(currentBalance, finalTotal) ==
    ~IsFinite(currentBalance) \/ currentBalance <= 0

\* createWithWallet's guard on the balance it read
FundsInsufficient(currentBalance, finalTotal) ==
    ~IsFinite(currentBalance) \/ currentBalance < finalTotal

NewBalanceAfterPurchase(currentBalance, finalTotal) == Round2(currentBalance - finalTotal)

NewBalanceAfterCredit(currentBalance, safeAmount) == Round2(currentBalance + safeAmount)

AmountInvalid(safeAmount) == ~IsFinite(safeAmount) \/ safeAmount <= 0

\* ------------------------------------------------------------- delivery fee
DELIVERY_FEE == 1500

\* JavaScript values are written as strings; the ones `if (x)` takes for true
Truthy(v) == v \in {"1", "2", "true"}

\* the user handed in: none at all, or an account row with this free_delivery
FeeUsers == {"absent", "0", "1", "2", "true", "false", "undefined", "null"}
FeeMethods == {"delivery", "pickup", "express", "", "undefined"}
FeeWaivers == {"true", "false", "undefined"}

\* a bug: the waiver not looked at
computeDeliveryFee_WaiverIgnored(user, deliveryMethod, waiveFee) ==
    IF deliveryMethod # "delivery" THEN 0
    ELSE IF user # "absent" /\ Truthy(user) THEN 0
    ELSE DELIVERY_FEE

\* computeDeliveryFee(user, deliveryMethod, waiveFee = false)
computeDeliveryFee(user, deliveryMethod, waiveFee) ==
    IF deliveryMethod # "delivery" THEN 0
    ELSE IF Truthy(waiveFee) THEN 0
    ELSE IF user # "absent" /\ Truthy(user) THEN 0
    ELSE DELIVERY_FEE

\* ------------------------------------------------------------- the store
EmptyDb ==
    [ stock  |-> InitStock,
      bal    |-> InitBalance,
      orders |-> {},
      items  |-> {},
      ledger |-> << >>,
      payments |-> {},  \* rows of payments
      topups |-> {},    \* rows of wallet_topups
      prices |-> InitPrice,                           \* products.price
      address |-> [u \in Users |-> AccountAddress],   \* users.address
      userCarts |-> << >>,                            \* rows of user_carts, as inserted
      decs   |-> {} ]   \* which (request, line) decrements are in effect: bookkeeping

IdleReq ==
    [ st |-> "idle", kind |-> "none", user |-> 0, cart |-> << >>, fee |-> 0,
      amount |-> 0, type |-> "none", ref |-> "none",
      orderId |-> 0, curBal |-> NaN, nres |-> 0, rej |-> "none", res |-> "none",
      ret |-> 0,               \* result.total / newBalance handed to the callback
      called |-> 0,            \* how many times the model call's callback was invoked
      begun |-> 0,             \* transactions the call has begun
      ended |-> 0,             \* COMMITs that succeeded and ROLLBACKs the call has run
      deliveryMethod |-> "pickup",     \* deliveryMethod = 'pickup' when none is given
      deliveryAddress |-> "null",      \* deliveryAddress = null when none is given
      stock0 |-> InitStock,    \* on-hand quantities when the call was made: bookkeeping
      ctl |-> "none",          \* the controller handler that serves the request, if any
      pref |-> "none",         \* the provider reference the handler works with
      pstatus |-> "none",      \* the status a provider reported to the handler
      pamount |-> 0,           \* the amount a provider reported to the handler
      expected |-> 0,          \* expectedTotal / expectedCents
      paymentMethod |-> "none",  \* req.body.paymentMethod of a checkout
      body |-> NaN,            \* the total the request body states, if it states one
      row |-> 0,               \* id of the wallet_topups / payments row the handler found
      http |-> "none" ]        \* the response the handler has sent

Q(r, op, k, err) == [r |-> r, op |-> op, k |-> k, err |-> err]

\* req.session before the shopper has put anything in the cart
NoPendingCheckout ==
    [set |-> FALSE, deliveryFee |-> 0, deliveryMethod |-> "pickup", deliveryAddress |-> "null"]
NoNetsPending == [set |-> FALSE, total |-> 0, txnRetrievalRef |-> "none"]
NoStripePaynow == [set |-> FALSE, paymentIntentId |-> "none", total |-> 0]
EmptySession ==
    [ cart |-> << >>, pendingCheckout |-> NoPendingCheckout,
      userAddress |-> AccountAddress,     \* req.session.user.address
      cartAbsent |-> FALSE,               \* req.session.cart is undefined
      cartOps |-> 0,                      \* cart requests served: bookkeeping
      netsPending |-> NoNetsPending, stripePaynow |-> NoStripePaynow ]

\* the references the providers hand out, one per channel
PaypalOrderId == "PAYPAL-ORDER-1"
StripeIntentId == "pi_card_1"
PaynowIntentId == "pi_paynow_1"
NetsRef == "NETS-REF-1"
PaypalCaptureId == "CAPTURE-1"
ProviderRefs == {PaypalOrderId, StripeIntentId, PaynowIntentId, NetsRef}
NoProvider == [ref \in ProviderRefs |-> [status |-> "none", amount |-> 0]]

\* no stream is open
NoStream ==
    [ open |-> FALSE, interval |-> FALSE, pollCount |-> 0, frontendTimeoutStatus |-> 0,
      inFlight |-> 0, terminalEvents |-> 0, endCalls |-> 0, closed |-> FALSE,
      queryFlags |-> << >>,    \* frontend_timeout_status of each query sent, in order
      lastData |-> "none",     \* the provider answer written last as a data event
      lastEvent |-> "none",    \* the terminal event written last
      lateWrite |-> FALSE ]    \* res.write was called after res.end() or after 'close'

NoFeeCall ==
    [ called |-> FALSE, user |-> "absent", deliveryMethod |-> "pickup",
      waiveFee |-> "undefined", fee |-> 0 ]

WebIdle ==
    /\ session = EmptySession
    /\ provider = NoProvider
    /\ stream = NoStream
    /\ feeCall = NoFeeCall

Init ==
    /\ committed = EmptyDb
    /\ working = EmptyDb
    /\ inTxn = FALSE
    /\ nextId = 1
    /\ queue = << >>
    /\ req = [r \in Reqs |-> IdleReq]
    /\ errBudget = MaxStoreErrors
    /\ ran = [r \in Reqs |-> {}]
    /\ fkItems \in BOOLEAN
    /\ WebIdle

\* a write: inside a transaction it stays uncommitted, outside it autocommits
Write(db) ==
    /\ working' = db
    /\ committed' = IF inTxn THEN committed ELSE db
    /\ inTxn' = inTxn

NoWrite == UNCHANGED << committed, working, inTxn >>

\* the store fails this query or not
Fails(fail) ==
    /\ fail \in (IF errBudget > 0 THEN {TRUE, FALSE} ELSE {FALSE})
    /\ errBudget' = IF fail THEN errBudget - 1 ELSE errBudget

Ran(r, op) == ran' = [ran EXCEPT ![r] = @ \cup {op}]

AtHead(r, op) == queue # << >> /\ Head(queue).r = r /\ Head(queue).op = op

\* requests are told apart only by their number: they start in that order
MayStart(r) == req[r].st = "idle" /\ (IF r = 1 THEN TRUE ELSE req[r - 1].st # "idle")

\* callback(err) / callback(null, result): the request's caller is answered
Answered(rec, result) == [rec EXCEPT !.st = "done", !.res = result, !.called = @ + 1]

\* ------------------------------------------------------------- entry points
StartCreate(r, u, cart, fee) ==
    /\ MayStart(r)
    /\ LET a == [IdleReq EXCEPT !.kind = "create", !.user = u, !.cart = cart, !.fee = fee,
                                !.stock0 = committed.stock]
       IN  IF cart = << >>
           THEN /\ req' = [req EXCEPT ![r] = Answered(a, "EmptyCart")]
                /\ queue' = queue
           ELSE /\ req' = [req EXCEPT ![r] = [a EXCEPT !.st = "run"]]
                /\ queue' = Append(queue, Q(r, "begin", 0, "none"))
    /\ UNCHANGED << committed, working, inTxn, nextId, errBudget, ran, fkItems, web >>

StartCreateWithWallet(r, u, cart, fee) ==
    /\ MayStart(r)
    /\ LET a == [IdleReq EXCEPT !.kind = "wallet", !.user = u, !.cart = cart, !.fee = fee,
                                !.stock0 = committed.stock]
       IN  IF cart = << >>
           THEN /\ req' = [req EXCEPT ![r] = Answered(a, "EmptyCart")]
                /\ queue' = queue
           ELSE /\ req' = [req EXCEPT ![r] = [a EXCEPT !.st = "run"]]
                /\ queue' = Append(queue, Q(r, "begin", 0, "none"))
    /\ UNCHANGED << committed, working, inTxn, nextId, errBudget, ran, fkItems, web >>

StartCreditWithType(r, u, amount, type, ref) ==
    /\ MayStart(r)
    /\ LET a == [IdleReq EXCEPT !.kind = "credit", !.user = u, !.amount = amount,
                                !.type = type, !.ref = ref,
                                !.stock0 = committed.stock]
       IN  IF AmountInvalid(amount)
           THEN /\ req' = [req EXCEPT ![r] = Answered(a, "InvalidAmount")]
                /\ queue' = queue
           ELSE /\ req' = [req EXCEPT ![r] = [a EXCEPT !.st = "run"]]
                /\ queue' = Append(queue, Q(r, "begin", 0, "none"))
    /\ UNCHANGED << committed, working, inTxn, nextId, errBudget, ran, fkItems, web >>

\* ------------------------------------------------------------- callbacks
\* reject(e) of one item promise: Promise.all settles on the first rejection only,
\* and its catch handler enqueues the ROLLBACK
RejectRec(rec, e) == IF rec.rej = "none" THEN [rec EXCEPT !.rej = e] ELSE rec

\* a bug: every rejected item promise rolling back and answering the caller
RejectQueries_EveryRejection(r, rec, e) == << Q(r, "rollback", 0, e) >>

\* the catch handler of Promise.all runs for the first rejection only
RejectQueries(r, rec, e) ==
    IF rec.rej = "none" THEN << Q(r, "rollback", 0, e) >> ELSE << >>

\* cartItems.map(...): every valid line enqueues its stock UPDATE at once
UpdateQueries(r, cart) ==
    LET all == [k \in 1..Len(cart) |-> Q(r, "updStock", k, "none")]
        Valid(q) == LineCheck(cart[q.k]) = "ok"
    IN  SelectSeq(all, Valid)

\* the first line whose promise rejects before issuing a query, or 0
FirstBadLine(cart) ==
    LET bad == {k \in 1..Len(cart) : LineCheck(cart[k]) # "ok"}
    IN  IF bad = {} THEN 0 ELSE CHOOSE k \in bad : \A j \in bad : k <= j

\* a bug: createWithWallet locking the product rows without the wallet row first
FirstLock_ProductsFirst(kind) == IF kind = "credit" THEN "selWallet" ELSE "selStock"

\* the first SELECT ... FOR UPDATE of a call: create locks product rows only,
\* createWithWallet and creditWithType start with the wallet row
FirstLock(kind) == IF kind = "create" THEN "selStock" ELSE "selWallet"

\* connection.beginTransaction: START TRANSACTION commits what the session has open
Begin(r) ==
    /\ AtHead(r, "begin")
    /\ Ran(r, "begin")
    /\ \E fail \in BOOLEAN :
        /\ Fails(fail)
        /\ IF fail
           THEN /\ req' = [req EXCEPT ![r] = Answered(req[r], "StoreError")]
                /\ queue' = Tail(queue)
                /\ NoWrite
           ELSE /\ committed' = working
                /\ working' = working
                /\ inTxn' = TRUE
                /\ req' = [req EXCEPT ![r].begun = @ + 1]
                /\ queue' = Append(Tail(queue), Q(r, FirstLock(req[r].kind), 0, "none"))
    /\ UNCHANGED << nextId, fkItems, web >>

\* SELECT wallet_balance FROM users WHERE id = ? FOR UPDATE
SelectWallet(r) ==
    /\ AtHead(r, "selWallet")
    /\ Ran(r, "selWallet")
    /\ \E fail \in BOOLEAN :
        /\ Fails(fail)
        /\ LET rec == req[r]
               currentBalance == IF rec.user \in DOMAIN working.bal
                                    THEN working.bal[rec.user] ELSE 0
               finalTotal == FinalTotal(rec.cart, rec.fee)
           IN  IF fail
               THEN /\ req' = req
                    /\ queue' = Append(Tail(queue), Q(r, "rollback", 0, "StoreError"))
               ELSE /\ req' = [req EXCEPT ![r].curBal = currentBalance]
                    /\ queue' = Append(Tail(queue),
                         IF rec.kind = "credit" THEN Q(r, "updWallet", 0, "none")
                         ELSE IF FundsInsufficient(currentBalance, finalTotal)
                              THEN Q(r, "rollback", 0, "InsufficientFunds")
                              ELSE Q(r, "selStock", 0, "none"))
    /\ NoWrite
    /\ UNCHANGED << nextId, fkItems, web >>

\* SELECT id, quantity FROM products WHERE id IN (...) FOR UPDATE, and the check loop
SelectStock(r) ==
    /\ AtHead(r, "selStock")
    /\ Ran(r, "selStock")
    /\ \E fail \in BOOLEAN :
        /\ Fails(fail)
        /\ LET verdict == StockCheck(req[r].cart, working.stock)
           IN  queue' = Append(Tail(queue),
                   IF fail THEN Q(r, "rollback", 0, "StoreError")
                   ELSE IF verdict # "ok" THEN Q(r, "rollback", 0, verdict)
                   ELSE Q(r, "insOrder", 0, "none"))
    /\ req' = req
    /\ NoWrite
    /\ UNCHANGED << nextId, fkItems, web >>

\* INSERT INTO orders, then the item promises are created
InsertOrder(r) ==
    /\ AtHead(r, "insOrder")
    /\ Ran(r, "insOrder")
    /\ \E fail \in BOOLEAN :
        /\ Fails(fail)
        /\ UNCHANGED << fkItems, web >>
        /\ IF fail
           THEN /\ queue' = Append(Tail(queue), Q(r, "rollback", 0, "StoreError"))
                /\ req' = req
                /\ NoWrite
                /\ nextId' = nextId
           ELSE LET rec == req[r]
                    row == [ id |-> nextId, user |-> rec.user,
                             total |-> FinalTotal(rec.cart, rec.fee),
                             fee |-> SafeDeliveryFee(rec.fee),
                             deliveryMethod |-> rec.deliveryMethod,
                             deliveryAddress |-> rec.deliveryAddress ]
                    bad == FirstBadLine(rec.cart)
                    e == IF bad = 0 THEN "none" ELSE LineCheck(rec.cart[bad])
                IN  /\ Write([working EXCEPT !.orders = @ \cup {row}])
                    /\ nextId' = nextId + 1
                    /\ req' = [req EXCEPT ![r] = [rec EXCEPT !.orderId = nextId, !.rej = e]]
                    /\ queue' = Tail(queue) \o UpdateQueries(r, rec.cart)
                                  \o (IF bad = 0 THEN << >> ELSE << Q(r, "rollback", 0, e) >>)

\* the conditional stock UPDATE of line k
UpdateStock(r, k) ==
    /\ AtHead(r, "updStock") /\ Head(queue).k = k
    /\ Ran(r, "updStock")
    /\ \E fail \in BOOLEAN :
        /\ Fails(fail)
        /\ LET rec == req[r]
               item == rec.cart[k]
               onHand == working.stock[item.productId]
           IN  IF fail
               THEN /\ req' = [req EXCEPT ![r] = RejectRec(rec, "StoreError")]
                    /\ queue' = Tail(queue) \o RejectQueries(r, rec, "StoreError")
                    /\ NoWrite
               ELSE IF StockUpdateApplies(onHand, item.quantity)
               THEN /\ Write([working EXCEPT !.stock[item.productId] = @ - item.quantity,
                                             !.decs = @ \cup {<< r, k >>}])
                    /\ req' = req
                    /\ queue' = Append(Tail(queue), Q(r, "insItem", k, "none"))
               ELSE /\ req' = [req EXCEPT ![r] = RejectRec(rec, "InsufficientStock")]
                    /\ queue' = Tail(queue) \o RejectQueries(r, rec, "InsufficientStock")
                    /\ NoWrite
    /\ UNCHANGED << nextId, fkItems, web >>

\* INSERT INTO order_items of line k; the last promise to resolve settles Promise.all
InsertItem(r, k) ==
    /\ AtHead(r, "insItem") /\ Head(queue).k = k
    /\ Ran(r, "insItem")
    /\ \E fail \in BOOLEAN :
        /\ Fails(fail)
        /\ LET rec == req[r]
               item == rec.cart[k]
               row == [ orderId |-> rec.orderId, line |-> k, productId |-> item.productId,
                        quantity |-> item.quantity, price |-> item.price ]
               allDone == rec.nres + 1 = Len(rec.cart) /\ rec.rej = "none"
               orphan == fkItems /\ ~(\E o \in working.orders : o.id = rec.orderId)
           IN  IF fail \/ orphan
               THEN /\ req' = [req EXCEPT ![r] = RejectRec(rec, "StoreError")]
                    /\ queue' = Tail(queue) \o RejectQueries(r, rec, "StoreError")
                    /\ NoWrite
               ELSE /\ Write([working EXCEPT !.items = @ \cup {row}])
                    /\ req' = [req EXCEPT ![r].nres = @ + 1]
                    /\ queue' = Tail(queue) \o
                         (IF ~allDone THEN << >>
                          ELSE IF rec.kind = "create" THEN << Q(r, "commit", 0, "none") >>
                          ELSE << Q(r, "updWallet", 0, "none") >>)
    /\ UNCHANGED << nextId, fkItems, web >>

\* UPDATE users SET wallet_balance = ? WHERE id = ?, with the balance computed
\* from the one this request read
UpdateWallet(r) ==
    /\ AtHead(r, "updWallet")
    /\ Ran(r, "updWallet")
    /\ \E fail \in BOOLEAN :
        /\ Fails(fail)
        /\ LET rec == req[r]
               newBalance ==
                   IF rec.kind = "credit"
                   THEN NewBalanceAfterCredit(rec.curBal, rec.amount)
                   ELSE NewBalanceAfterPurchase(rec.curBal, FinalTotal(rec.cart, rec.fee))
           IN  IF fail
               THEN /\ queue' = Append(Tail(queue), Q(r, "rollback", 0, "StoreError"))
                    /\ NoWrite
               ELSE /\ Write([working EXCEPT !.bal[rec.user] = newBalance])
                    /\ queue' = Append(Tail(queue), Q(r, "insLedger", 0, "none"))
    /\ req' = req
    /\ UNCHANGED << nextId, fkItems, web >>

\* INSERT INTO wallet_transactions
InsertLedger(r) ==
    /\ AtHead(r, "insLedger")
    /\ Ran(r, "insLedger")
    /\ \E fail \in BOOLEAN :
        /\ Fails(fail)
        /\ LET rec == req[r]
               finalTotal == FinalTotal(rec.cart, rec.fee)
               row == IF rec.kind = "credit"
                      THEN [ user |-> rec.user, type |-> rec.type, amount |-> rec.amount,
                             after |-> NewBalanceAfterCredit(rec.curBal, rec.amount),
                             ref |-> [tag |-> rec.ref, id |-> 0], by |-> r ]
                      ELSE [ user |-> rec.user, type |-> "purchase", amount |-> 0 - finalTotal,
                             after |-> NewBalanceAfterPurchase(rec.curBal, finalTotal),
                             ref |-> [tag |-> "order", id |-> rec.orderId], by |-> r ]
           IN  IF fail
               THEN /\ queue' = Append(Tail(queue), Q(r, "rollback", 0, "StoreError"))
                    /\ NoWrite
               ELSE /\ Write([working EXCEPT !.ledger = Append(@, row)])
                    /\ queue' = Append(Tail(queue), Q(r, "commit", 0, "none"))
    /\ req' = req
    /\ UNCHANGED << nextId, fkItems, web >>

\* connection.commit: on success the caller is answered with the result
Commit(r) ==
    /\ AtHead(r, "commit")
    /\ Ran(r, "commit")
    /\ \E fail \in BOOLEAN :
        /\ Fails(fail)
        /\ IF fail
           THEN /\ queue' = Append(Tail(queue), Q(r, "rollback", 0, "CommitError"))
                /\ req' = req
                /\ NoWrite
           ELSE /\ committed' = working
                /\ working' = working
                /\ inTxn' = FALSE
                /\ req' = [req EXCEPT ![r] = [Answered(req[r], "ok") EXCEPT
                              !.ended = @ + 1,
                              !.ret = IF req[r].kind = "credit"
                                      THEN NewBalanceAfterCredit(req[r].curBal, req[r].amount)
                                      ELSE FinalTotal(req[r].cart, req[r].fee)]]
                /\ queue' = Tail(queue)
    /\ UNCHANGED << nextId, fkItems, web >>

\* connection.rollback(() => callback(err)): the session's open work is undone
Rollback(r) ==
    /\ AtHead(r, "rollback")
    /\ Ran(r, "rollback")
    /\ working' = committed
    /\ committed' = committed
    /\ inTxn' = FALSE
    /\ req' = [req EXCEPT ![r] = [Answered(req[r], Head(queue).err) EXCEPT !.ended = @ + 1]]
    /\ queue' = Tail(queue)
    /\ UNCHANGED << nextId, errBudget, fkItems, web >>

\* the connection takes the query at the head of its queue
RunQuery(r) ==
    \/ Begin(r)
    \/ SelectWallet(r)
    \/ SelectStock(r)
    \/ InsertOrder(r)
    \/ \E k \in 1..MaxLines : UpdateStock(r, k)
    \/ \E k \in 1..MaxLines : InsertItem(r, k)
    \/ UpdateWallet(r)
    \/ InsertLedger(r)
    \/ Commit(r)
    \/ Rollback(r)

\* ------------------------------------------------------------- specifications
\* requests arrive at any time while others are in flight
Next ==
    \E r \in Reqs :
        \/ \E u \in Users, cart \in ConcCarts, fee \in ConcFees : StartCreate(r, u, cart, fee)
        \/ \E u \in Users, cart \in ConcCarts, fee \in ConcFees : StartCreateWithWallet(r, u, cart, fee)
        \/ \E u \in Users, type \in CreditTypes, ref \in CreditRefs : StartCreditWithType(r, u, 5000, type, ref)
        \/ RunQuery(r)

Spec == Init /\ [][Next]_vars

\* one request at a time, on a store that does not fail
Quiet == queue = << >> /\ \A r \in Reqs : req[r].st # "run"

InitSeq ==
    /\ committed = EmptyDb
    /\ working = EmptyDb
    /\ inTxn = FALSE
    /\ nextId = 1
    /\ queue = << >>
    /\ req = [r \in Reqs |-> IdleReq]
    /\ errBudget = 0
    /\ ran = [r \in Reqs |-> {}]
    /\ fkItems \in BOOLEAN
    /\ WebIdle

NextSeq ==
    \E r \in Reqs :
        \/ Quiet /\ \E u \in Users, o \in SeqOrders : StartCreate(r, u, o[1], o[2])
        \/ Quiet /\ \E u \in Users, o \in SeqOrders : StartCreateWithWallet(r, u, o[1], o[2])
        \/ Quiet /\ \E u \in Users, a \in CreditAmounts, ref \in CreditRefs :
                        StartCreditWithType(r, u, a, "topup", ref)
        \/ RunQuery(r)

SpecSeq == InitSeq /\ [][NextSeq]_vars

\* ------------------------------------------------------------- reading a state
Drained(r) == \A i \in 1..Len(queue) : queue[i].r # r
Failed(r) == req[r].st = "done" /\ req[r].res # "ok"
Succeeded(r) == req[r].st = "done" /\ req[r].res = "ok"
IsOrderCall(r) == req[r].kind \in {"create", "wallet"}
NoStoreError == errBudget = MaxStoreErrors

\* what a call has put into a set of tables
OrdersOf(db, r) == {o \in db.orders : req[r].orderId # 0 /\ o.id = req[r].orderId}
ItemsOf(db, r) == {i \in db.items : req[r].orderId # 0 /\ i.orderId = req[r].orderId}
DecsOf(db, r) == {d \in db.decs : d[1] = r}
LedgerOf(db, r) == {i \in 1..Len(db.ledger) : db.ledger[i].by = r}

RECURSIVE SumQty(_, _)
SumQty(cart, p) ==
    IF cart = << >> THEN 0
    ELSE (IF Head(cart).productId = p THEN Head(cart).quantity ELSE 0) + SumQty(Tail(cart), p)

\* ------------------------------------------------------------- C1
\* C1: under every interleaving of order creations no committed on-hand quantity
\* is negative, and an attempt that was rejected has no stock decrement of its own
\* committed once all its queries have run.
C1_NoOversellAndRejectedLeavesStock ==
    /\ \A p \in Products : committed.stock[p] >= 0
    /\ \A r \in Reqs :
         (IsOrderCall(r) /\ Failed(r) /\ Drained(r)) => DecsOf(committed, r) = {}

\* ------------------------------------------------------------- C2
\* C2: Order.create is all-or-nothing: once a call that reported an error has had
\* all its queries run, no orders row, no order_items row and no stock decrement
\* of that call is committed.
C2_CreateAllOrNothing ==
    \A r \in Reqs :
        (req[r].kind = "create" /\ Failed(r) /\ Drained(r)) =>
            /\ OrdersOf(committed, r) = {}
            /\ ItemsOf(committed, r) = {}
            /\ DecsOf(committed, r) = {}

\* ------------------------------------------------------------- C5
\* C5: two Order.create calls that each ask for n units of one product with stock
\* s, n <= s < 2n, on a store that does not fail, end with exactly one success and
\* one insufficient-stock failure, and with s - n units on hand.
TwoCreatesOf(p, n) ==
    /\ \A r \in {1, 2} :
         /\ req[r].kind = "create"
         /\ Len(req[r].cart) = 1
         /\ req[r].cart[1].productId = p
         /\ req[r].cart[1].quantity = n
         /\ IsFinite(req[r].cart[1].price)
         /\ req[r].st = "done"
    /\ \A r \in Reqs \ {1, 2} : req[r].st = "idle"
    /\ queue = << >>
    /\ NoStoreError
    /\ n <= InitStock[p] /\ InitStock[p] < 2 * n

C5_ExactlyOneOfTwoSucceeds ==
    \A p \in Products, n \in 1..5 :
        TwoCreatesOf(p, n) =>
            /\ \E a \in {1, 2} : /\ req[a].res = "ok"
                                 /\ req[3 - a].res = "InsufficientStock"
            /\ committed.stock[p] = InitStock[p] - n

\* ------------------------------------------------------------- C3
\* r is the call made last
Latest(r) == \A r2 \in Reqs : r2 > r => req[r2].st = "idle"
Finished(r) == req[r].st = "done" /\ Drained(r)
LinesValid(cart) ==
    \A k \in 1..Len(cart) : cart[k].quantity > 0 /\ IsFinite(cart[k].price)
PricesFinite(cart) == \A k \in 1..Len(cart) : IsFinite(cart[k].price)
WithinStockPerLine(cart, stock) ==
    \A k \in 1..Len(cart) : cart[k].quantity > 0 /\ cart[k].quantity <= stock[cart[k].productId]
WithinStockSummed(cart, stock) == \A p \in Products : SumQty(cart, p) <= stock[p]

CreateOutcome(r, accept) ==
    IF accept
    THEN /\ req[r].res = "ok"
         /\ \A p \in Products :
              committed.stock[p] = req[r].stock0[p] - SumQty(req[r].cart, p)
    ELSE /\ req[r].res # "ok"
         /\ committed.stock = req[r].stock0

\* C3 as stated: a create call that runs alone on a store that does not fail, with
\* a cart of priced lines, succeeds and takes the summed quantities off the stock
\* exactly when the cart is not empty and every line has 0 < quantity <= stock of
\* its product; otherwise it fails and no stock changes.
C3_PerLineStatement ==
    \A r \in Reqs :
        (req[r].kind = "create" /\ Finished(r) /\ Latest(r) /\ PricesFinite(req[r].cart)) =>
            CreateOutcome(r, /\ req[r].cart # << >>
                             /\ WithinStockPerLine(req[r].cart, req[r].stock0))

\* C3 amended: the same, with the stock condition on each product's summed quantity,
\* and for every cart: it succeeds exactly when the cart is not empty, every line has
\* quantity > 0 and a finite price, and each product's summed quantity is within
\* its stock.
C3_SummedStatement ==
    \A r \in Reqs :
        (req[r].kind = "create" /\ Finished(r) /\ Latest(r)) =>
            CreateOutcome(r, /\ req[r].cart # << >>
                             /\ LinesValid(req[r].cart)
                             /\ WithinStockSummed(req[r].cart, req[r].stock0))

\* a cart with two lines of one product was accepted and both quantities taken
C3_Witness ==
    \E r \in Reqs :
        /\ req[r].kind = "create" /\ Finished(r) /\ Latest(r)
        /\ Len(req[r].cart) = 2
        /\ req[r].cart[1].productId = req[r].cart[2].productId
        /\ req[r].res = "ok"
        /\ committed.stock[req[r].cart[1].productId]
             = req[r].stock0[req[r].cart[1].productId]
                 - (req[r].cart[1].quantity + req[r].cart[2].quantity)

RoundCents(x) == 10 * ((x + 5) \div 10)
RECURSIVE LineSum(_, _)
LineSum(cart, n) ==
    IF n = 0 THEN 0 ELSE cart[n].price * cart[n].quantity + LineSum(cart, n - 1)
StatedTotal(cart, fee) ==
    RoundCents(RoundCents(LineSum(cart, Len(cart)))
               + (IF IsFinite(fee) /\ fee > 0 THEN fee ELSE 0))

\* C6: the total stored in the orders row and the total returned equal
\* round(round(sum of price*quantity, 2) + deliveryFee, 2), a delivery fee that is
\* not finite or not positive counting as 0.
C6_TotalIsRoundedSumPlusFee ==
    \A r \in Reqs :
        (IsOrderCall(r) /\ PricesFinite(req[r].cart)) =>
            /\ \A o \in OrdersOf(working, r) \cup OrdersOf(committed, r) :
                 o.total = StatedTotal(req[r].cart, req[r].fee)
            /\ Succeeded(r) => req[r].ret = StatedTotal(req[r].cart, req[r].fee)

\* the example: 2 units at 10.00 and a fee of 1.50 give 21.50, and stock 5 becomes 3
C6_Witness ==
    \E r \in Reqs :
        /\ req[r].kind = "create" /\ Succeeded(r)
        /\ req[r].cart = << Line(1, 2, 10000) >> /\ req[r].fee = 1500
        /\ req[r].ret = 21500
        /\ \E o \in OrdersOf(committed, r) : o.total = 21500
        /\ req[r].stock0[1] = 5 /\ committed.stock[1] = 3

\* ------------------------------------------------------------- C7
\* C7: in every committed state every wallet balance is >= 0.
C7_BalanceNeverNegative == \A u \in Users : committed.bal[u] >= 0

\* a credit and a wallet purchase of one user are both committed
C7_Witness ==
    \E i, j \in 1..Len(committed.ledger) :
        /\ committed.ledger[i].type = "purchase"
        /\ committed.ledger[j].type \in {"topup", "refund"}
        /\ committed.ledger[i].user = committed.ledger[j].user

\* ------------------------------------------------------------- C8
RECURSIVE LedgerSum(_, _)
LedgerSum(ledger, u) ==
    IF ledger = << >> THEN 0
    ELSE (IF Head(ledger).user = u THEN Head(ledger).amount ELSE 0) + LedgerSum(Tail(ledger), u)
SignedAmount(r) ==
    IF req[r].kind = "credit" THEN req[r].amount ELSE 0 - FinalTotal(req[r].cart, req[r].fee)

\* C8: every wallet operation that reported success has exactly one committed
\* ledger row, whose balance_after is round(balance read + signed amount, 2); and
\* whenever no call is in flight, every user's balance equals the balance_after of
\* the user's latest ledger row and the initial balance plus the sum of the user's
\* ledger amounts.
C8_LedgerIsRunningTotal ==
    /\ \A r \in Reqs :
         (req[r].kind \in {"credit", "wallet"} /\ Succeeded(r) /\ Drained(r)) =>
            /\ Cardinality(LedgerOf(committed, r)) = 1
            /\ \A i \in LedgerOf(committed, r) :
                 committed.ledger[i].after = RoundCents(req[r].curBal + SignedAmount(r))
    /\ \A u \in Users :
         Quiet =>
         LET mine == {i \in 1..Len(committed.ledger) : committed.ledger[i].user = u}
         IN  /\ committed.bal[u] = InitBalance[u] + LedgerSum(committed.ledger, u)
             /\ mine # {} =>
                  committed.bal[u]
                    = committed.ledger[CHOOSE i \in mine : \A j \in mine : j <= i].after

C10_WalletPurchaseAtomic ==
    \A r \in Reqs :
        (req[r].kind = "wallet" /\ Finished(r)) =>
            LET total == FinalTotal(req[r].cart, req[r].fee)
                debit == {i \in LedgerOf(committed, r) :
                            /\ committed.ledger[i].type = "purchase"
                            /\ committed.ledger[i].amount = 0 - total
                            /\ committed.ledger[i].ref = [tag |-> "order", id |-> req[r].orderId]
                            /\ committed.ledger[i].after = req[r].curBal - total}
            IN  \/ /\ OrdersOf(committed, r) # {}
                   /\ Cardinality(ItemsOf(committed, r)) = Len(req[r].cart)
                   /\ DecsOf(committed, r) = {r} \X (1..Len(req[r].cart))
                   /\ Cardinality(debit) = 1
                   /\ Cardinality(LedgerOf(committed, r)) = 1
                \/ /\ OrdersOf(committed, r) = {}
                   /\ ItemsOf(committed, r) = {}
                   /\ DecsOf(committed, r) = {}
                   /\ LedgerOf(committed, r) = {}

\* ------------------------------------------------------------- delivery fee calls
\* startPayment, checkout and updateDeliveryDetails ask for the fee
ComputeDeliveryFee(user, deliveryMethod, waiveFee) ==
    /\ feeCall' = [ called |-> TRUE, user |-> user, deliveryMethod |-> deliveryMethod,
                    waiveFee |-> waiveFee,
                    fee |-> computeDeliveryFee(user, deliveryMethod, waiveFee) ]
    /\ UNCHANGED << committed, working, inTxn, nextId, queue, req, errBudget, ran, fkItems,
                    session, provider, stream >>

NextFee ==
    \E user \in FeeUsers, deliveryMethod \in FeeMethods, waiveFee \in FeeWaivers :
        ComputeDeliveryFee(user, deliveryMethod, waiveFee)

SpecFee == Init /\ [][NextFee]_vars

\* ------------------------------------------------------------- C19
\* C19: computeDeliveryFee returns 0 whenever the method is not 'delivery', 0 for
\* a delivery that is waived or whose user has the free-delivery flag, and the
\* fixed fee 1.50 in every other case, an absent user included.
C19_DeliveryFeeTable ==
    feeCall.called =>
        LET flagged == feeCall.user \in {"1", "2", "true"}
            waived == feeCall.waiveFee = "true"
        IN  /\ feeCall.deliveryMethod # "delivery" => feeCall.fee = 0
            /\ (feeCall.deliveryMethod = "delivery" /\ (waived \/ flagged)) => feeCall.fee = 0
            /\ (feeCall.deliveryMethod = "delivery" /\ ~waived /\ ~flagged) => feeCall.fee = 1500

\* a delivery for no user, and a waived delivery, were priced
C19_Witness ==
    /\ feeCall.called
    /\ feeCall.deliveryMethod = "delivery"
    /\ \/ feeCall.user = "absent" /\ feeCall.waiveFee = "undefined" /\ feeCall.fee = 1500
       \/ feeCall.user = "0" /\ feeCall.waiveFee = "true" /\ feeCall.fee = 0

\* ------------------------------------------------------------- payment status stream
maxPolls == 60
MaxInFlight == 2        \* polls awaiting the provider at one time

\* what netsService.queryPaymentStatus gives a poll: response_code '00' with
\* txn_status 1, a refusal (another response_code, or txn_status 2), a payment
\* still open, a body without result.data, or a rejected promise
PollResponses == {"success", "failure", "pending", "noData", "throw"}

\* streamNetsPaymentStatus: the headers are sent and the interval is set
OpenStream ==
    /\ ~stream.open
    /\ stream' = [NoStream EXCEPT !.open = TRUE, !.interval = TRUE]
    /\ UNCHANGED << committed, working, inTxn, nextId, queue, req, errBudget, ran, fkItems,
                    session, provider, feeCall >>

\* the timer fires: pollCount += 1 and the query is sent; the callback awaits it
PollTick ==
    /\ stream.interval
    /\ stream.inFlight < MaxInFlight
    /\ stream' = [stream EXCEPT !.pollCount = @ + 1, !.inFlight = @ + 1,
                                !.queryFlags = Append(@, stream.frontendTimeoutStatus)]
    /\ UNCHANGED << committed, working, inTxn, nextId, queue, req, errBudget, ran, fkItems,
                    session, provider, feeCall >>

\* clearInterval(interval), one terminal event written, res.end()
Terminal(st, event) ==
    [st EXCEPT !.interval = FALSE, !.terminalEvents = @ + 1, !.endCalls = @ + 1,
               !.lastEvent = event]

\* a poll's await returns: the rest of the interval callback runs
PollResume(response) ==
    /\ stream.inFlight > 0
    /\ LET thrown == [stream EXCEPT !.inFlight = @ - 1,
                                    !.lateWrite = @ \/ stream.endCalls > 0 \/ stream.closed]
           st == [thrown EXCEPT !.lastData = response]
       IN  stream' =
             IF response = "throw" THEN Terminal(thrown, "error")
             ELSE IF response = "success" THEN Terminal(st, "success")
             ELSE IF st.frontendTimeoutStatus = 1 /\ response = "failure"
                  THEN Terminal(st, "fail")
             ELSE IF st.pollCount >= maxPolls
                  THEN [Terminal(st, "timeout") EXCEPT !.frontendTimeoutStatus = 1]
             ELSE st
    /\ UNCHANGED << committed, working, inTxn, nextId, queue, req, errBudget, ran, fkItems,
                    session, provider, feeCall >>

\* req.on('close') with a handler that leaves the timer running
ClientClose_TimerKept ==
    /\ stream.open /\ ~stream.closed
    /\ stream' = [stream EXCEPT !.closed = TRUE]
    /\ UNCHANGED << committed, working, inTxn, nextId, queue, req, errBudget, ran, fkItems,
                    session, provider, feeCall >>

\* req.on('close'): the client has gone
ClientClose ==
    /\ stream.open /\ ~stream.closed
    /\ stream' = [stream EXCEPT !.closed = TRUE, !.interval = FALSE]
    /\ UNCHANGED << committed, working, inTxn, nextId, queue, req, errBudget, ran, fkItems,
                    session, provider, feeCall >>

NextStream ==
    \/ OpenStream
    \/ PollTick
    \/ \E response \in PollResponses : PollResume(response)
    \/ ClientClose

SpecStream == Init /\ [][NextStream]_vars

\* ------------------------------------------------------------- C15
\* C15: a payment-status stream emits at most one terminal event (success, fail or
\* error) and ends its response at most once, and it has emitted its terminal event
\* when the response is ended, however the provider's answers fall relative to the
\* timer, several polls in flight at once included.
C15_OneTerminalEvent ==
    /\ stream.terminalEvents <= 1
    /\ stream.endCalls <= 1
    /\ stream.endCalls = 1 => stream.terminalEvents = 1

\* ------------------------------------------------------------- C20
\* C20: a call that locks both a wallet row and product rows locks the wallet row
\* first, no call asks for a wallet lock after it has locked or written a product
\* row, create touches no wallet row and creditWithType no product row; and under
\* every interleaving of the three the query at the head of the connection can
\* run and every unanswered call still has a query queued: no call waits on another.
C20_WalletLockFirstNoDeadlock ==
    /\ \A r \in Reqs :
         /\ (req[r].kind = "wallet" /\ ran[r] \cap {"selStock", "updStock"} # {})
                => "selWallet" \in ran[r]
         /\ req[r].kind = "create" => ran[r] \cap {"selWallet", "updWallet"} = {}
         /\ req[r].kind = "credit" => ran[r] \cap {"selStock", "updStock"} = {}
         /\ \A i \in 1..Len(queue) :
              (queue[i].r = r /\ queue[i].op = "selWallet")
                 => ran[r] \cap {"selStock", "updStock"} = {}
         /\ req[r].st = "run" => \E i \in 1..Len(queue) : queue[i].r = r
    /\ queue # << >> => ENABLED (\E r \in Reqs : RunQuery(r))

\* a wallet purchase holds the wallet row and the product rows while another
\* call is in flight
C20_Witness ==
    \E r, r2 \in Reqs :
        /\ r # r2
        /\ req[r].kind = "wallet" /\ req[r].st = "run"
        /\ {"selWallet", "selStock", "updStock"} \subseteq ran[r]
        /\ req[r2].st = "run" /\ "begin" \in ran[r2]

\* ------------------------------------------------------------- wallet top-ups and refunds
\* the shopper whose session the requests carry
Shopper == 1

\* `nets:${txnRetrievalRef}`, `paypal:${captureId}`, `refund:order:${orderId}`
NetsReference(ref) == IF ref = NetsRef THEN "nets:NETS-REF-1" ELSE "nets:other"
PaypalReference(captureId) ==
    IF captureId = PaypalCaptureId THEN "paypal:CAPTURE-1" ELSE "paypal:other"
RefundReference(orderId) ==
    IF orderId = 1 THEN "refund:order:1"
    ELSE IF orderId = 2 THEN "refund:order:2" ELSE "refund:order:3"

\* the tables the top-up and refund handlers find: order 1 paid, order 2 paid and
\* refunded, order 3 without a payments row, and a NETS top-up awaiting confirmation
RefundOrders == {1, 2, 3}
SeededDb ==
    [ EmptyDb EXCEPT
        !.orders = { [ id |-> o, user |-> Shopper, total |-> 2000, fee |-> 0,
                       deliveryMethod |-> "pickup", deliveryAddress |-> "null" ]
                     : o \in RefundOrders },
        !.payments =
            { [ id |-> 1, orderId |-> 1, provider |-> "stripe", status |-> "paid",
                amount |-> 2000, ref |-> StripeIntentId ],
              [ id |-> 2, orderId |-> 2, provider |-> "paypal", status |-> "refunded",
                amount |-> 2000, ref |-> PaypalCaptureId ] },
        !.topups =
            { [ id |-> 1, user |-> Shopper, provider |-> "nets", amount |-> 5000,
                status |-> "pending", ref |-> NetsRef ] } ]

InitWallet ==
    /\ committed = SeededDb
    /\ working = SeededDb
    /\ inTxn = FALSE
    /\ nextId = 4
    /\ queue = << >>
    /\ req = [r \in Reqs |-> IdleReq]
    /\ errBudget = MaxStoreErrors
    /\ ran = [r \in Reqs |-> {}]
    /\ fkItems \in BOOLEAN
    /\ WebIdle

\* res.json / res.redirect: the handler has answered
Responded(rec, response) == [rec EXCEPT !.st = "done", !.http = response]

\* the callback handed to a model call has been called and its body is about to run
CallbackDue(r) == req[r].ctl # "none" /\ req[r].st = "done" /\ req[r].http = "none"
NoCallbackDue == \A r \in Reqs : ~CallbackDue(r)

\* Wallet.credit / Wallet.creditWithType called from a query callback: the amount
\* guard answers at once, otherwise the transaction is begun
CreditCall(rec, u, amount, type, reference) ==
    [rec EXCEPT !.kind = "credit", !.user = u, !.amount = amount, !.type = type,
                !.ref = reference,
                !.st = IF AmountInvalid(amount) THEN "done" ELSE "run",
                !.called = IF AmountInvalid(amount) THEN @ + 1 ELSE @,
                !.res = IF AmountInvalid(amount) THEN "InvalidAmount" ELSE "none"]
CreditQueries(r, amount) ==
    IF AmountInvalid(amount) THEN << >> ELSE << Q(r, "begin", 0, "none") >>

\* confirmNetsTopup: the top-up row is looked up by the reference in the request;
\* an amount the request states is never read
ConfirmNetsTopup(r, txnRetrievalRef, bodyAmount) ==
    /\ MayStart(r)
    /\ req' = [req EXCEPT ![r] =
                 [IdleReq EXCEPT !.st = "run", !.ctl = "confirmNetsTopup", !.user = Shopper,
                                 !.pref = txnRetrievalRef, !.body = bodyAmount,
                                 !.stock0 = committed.stock]]
    /\ queue' = Append(queue, Q(r, "findTopup", 0, "none"))
    /\ UNCHANGED << committed, working, inTxn, nextId, errBudget, ran, fkItems, web >>

\* what paypal.captureOrder answers for a top-up: the capture with its id and
\* amount, a capture not completed, a body without capture id or without amount,
\* or an exception
Capture(status, id, amount) == [status |-> status, id |-> id, amount |-> amount]
PaypalTopupCaptures ==
    { Capture("COMPLETED", PaypalCaptureId, 5000),
      Capture("PENDING", PaypalCaptureId, 5000),
      Capture("COMPLETED", "none", 5000),
      Capture("COMPLETED", PaypalCaptureId, NaN),
      Capture("throw", "none", NaN) }

\* capturePaypalTopup, from the provider's answer on
CapturePaypalTopup(r, capture) ==
    /\ MayStart(r)
    /\ LET a == [IdleReq EXCEPT !.ctl = "capturePaypalTopup", !.user = Shopper,
                                !.pref = capture.id, !.pstatus = capture.status,
                                !.pamount = capture.amount, !.stock0 = committed.stock]
       IN  IF capture.status = "throw"
           THEN /\ req' = [req EXCEPT ![r] = Responded(a, "CaptureFailed")]
                /\ queue' = queue
           ELSE IF capture.status # "COMPLETED"
           THEN /\ req' = [req EXCEPT ![r] = Responded(a, "NotCompleted")]
                /\ queue' = queue
           ELSE IF capture.id = "none" \/ ~IsFinite(capture.amount)
           THEN /\ req' = [req EXCEPT ![r] = Responded(a, "Unconfirmed")]
                /\ queue' = queue
           ELSE /\ req' = [req EXCEPT ![r] = [a EXCEPT !.st = "run"]]
                /\ queue' = Append(queue, Q(r, "findTopup", 0, "none"))
    /\ UNCHANGED << committed, working, inTxn, nextId, errBudget, ran, fkItems, web >>

\* a bug: confirmNetsTopup crediting whoever presents the reference of a top-up
TopupVerdict_AnyOwner(ctl, found, topup, u) ==
    IF ~found THEN (IF ctl = "confirmNetsTopup" THEN "NotFound" ELSE "credit")
    ELSE IF ctl = "confirmNetsTopup" /\ topup.status = "pending" THEN "credit"
    ELSE "AlreadyProcessed"

\* what the lookup's callback decides from the row it was given
TopupVerdict(ctl, found, topup, u) ==
    IF ctl = "confirmNetsTopup"
    THEN IF ~found \/ topup.user # u THEN "NotFound"
         ELSE IF topup.status # "pending" THEN "AlreadyProcessed"
         ELSE "credit"
    ELSE IF found THEN "AlreadyProcessed" ELSE "credit"

NoTopup == [id |-> 0, user |-> 0, provider |-> "none", amount |-> 0, status |-> "none", ref |-> "none"]

\* Wallet.findByProviderRef (SELECT ... WHERE provider_ref = ? LIMIT 1) and its callback
FindTopup(r) ==
    /\ AtHead(r, "findTopup")
    /\ Ran(r, "findTopup")
    /\ \E fail \in BOOLEAN :
        /\ Fails(fail)
        /\ LET rec == req[r]
               rows == {t \in working.topups : t.ref = rec.pref}
           IN  \E topup \in (IF rows = {} THEN {NoTopup} ELSE rows) :
                 LET verdict == TopupVerdict(rec.ctl, rows # {}, topup, rec.user)
                     amount == IF rec.ctl = "confirmNetsTopup" THEN topup.amount ELSE rec.pamount
                     reference == IF rec.ctl = "confirmNetsTopup"
                                  THEN NetsReference(rec.pref) ELSE PaypalReference(rec.pref)
                 IN  IF fail
                     THEN /\ req' = [req EXCEPT ![r] = Responded(rec, "LookupFailed")]
                          /\ queue' = Tail(queue)
                     ELSE IF verdict # "credit"
                     THEN /\ req' = [req EXCEPT ![r] = Responded(rec, verdict)]
                          /\ queue' = Tail(queue)
                     ELSE /\ req' = [req EXCEPT ![r] =
                                       CreditCall([rec EXCEPT !.row = topup.id], rec.user,
                                                  amount, "topup", reference)]
                          /\ queue' = Tail(queue) \o CreditQueries(r, amount)
    /\ NoWrite
    /\ UNCHANGED << nextId, fkItems, web >>

\* the callback handed to Wallet.credit by the two top-up handlers
TopupCredited(r) ==
    /\ CallbackDue(r)
    /\ req[r].ctl \in {"confirmNetsTopup", "capturePaypalTopup"}
    /\ LET rec == req[r]
       IN  IF rec.res # "ok"
           THEN /\ req' = [req EXCEPT ![r] = Responded(rec, "CreditFailed")]
                /\ queue' = queue
           ELSE IF rec.ctl = "confirmNetsTopup"
           THEN /\ req' = [req EXCEPT ![r].st = "run"]
                /\ queue' = Append(queue, Q(r, "markCompleted", 0, "none"))
           ELSE /\ req' = [req EXCEPT ![r] = Responded(rec, "success")]
                /\ queue' = Append(queue, Q(r, "insTopup", 0, "none"))
    /\ UNCHANGED << committed, working, inTxn, nextId, errBudget, ran, fkItems, web >>

\* Wallet.markCompleted: UPDATE wallet_topups SET status = 'completed' WHERE id = ?
MarkCompleted(r) ==
    /\ AtHead(r, "markCompleted")
    /\ Ran(r, "markCompleted")
    /\ \E fail \in BOOLEAN :
        /\ Fails(fail)
        /\ IF fail
           THEN /\ req' = [req EXCEPT ![r] = Responded(req[r], "StatusUpdateFailed")]
                /\ NoWrite
           ELSE /\ req' = [req EXCEPT ![r] = Responded(req[r], "success")]
                /\ Write([working EXCEPT !.topups =
                            { IF t.id = req[r].row THEN [t EXCEPT !.status = "completed"] ELSE t
                              : t \in @ }])
    /\ queue' = Tail(queue)
    /\ UNCHANGED << nextId, fkItems, web >>

\* Wallet.create of capturePaypalTopup: the row is written after the answer, and a
\* failure is only logged
InsertTopup(r) ==
    /\ AtHead(r, "insTopup")
    /\ Ran(r, "insTopup")
    /\ \E fail \in BOOLEAN :
        /\ Fails(fail)
        /\ IF fail
           THEN NoWrite
           ELSE Write([working EXCEPT !.topups = @ \cup
                         { [ id |-> Cardinality(working.topups) + 1, user |-> req[r].user,
                             provider |-> "paypal", amount |-> req[r].pamount,
                             status |-> "completed", ref |-> req[r].pref ] }])
    /\ req' = req
    /\ queue' = Tail(queue)
    /\ UNCHANGED << nextId, fkItems, web >>

\* refundPayment: the order id of the route, then the payment is looked up
RefundPayment(r, orderId) ==
    /\ MayStart(r)
    /\ LET a == [IdleReq EXCEPT !.ctl = "refundPayment", !.orderId = orderId,
                                !.pref = RefundReference(orderId),
                                !.stock0 = committed.stock]
       IN  IF ~IsFinite(orderId)
           THEN /\ req' = [req EXCEPT ![r] = Responded(a, "InvalidOrder")]
                /\ queue' = queue
           ELSE /\ req' = [req EXCEPT ![r] = [a EXCEPT !.st = "run"]]
                /\ queue' = Append(queue, Q(r, "findPayment", 0, "none"))
    /\ UNCHANGED << committed, working, inTxn, nextId, errBudget, ran, fkItems, web >>

\* a bug: a payment already refunded let through
RefundVerdict_StatusIgnored(found, status) == IF ~found THEN "NotFound" ELSE "refund"

\* what the callback of Payment.findByOrderId decides
RefundVerdict(found, status) ==
    IF ~found THEN "NotFound"
    ELSE IF status = "refunded" THEN "AlreadyRefunded"
    ELSE "refund"

\* Payment.findByOrderId (ORDER BY created_at DESC, id DESC LIMIT 1) and its callback
FindPayment(r) ==
    /\ AtHead(r, "findPayment")
    /\ Ran(r, "findPayment")
    /\ \E fail \in BOOLEAN :
        /\ Fails(fail)
        /\ LET rec == req[r]
               rows == {p \in working.payments : p.orderId = rec.orderId}
               found == rows # {}
               payment == CHOOSE p \in rows : \A p2 \in rows : p2.id <= p.id
               status == IF found THEN payment.status ELSE "missing"
               verdict == RefundVerdict(found, status)
           IN  IF fail
               THEN /\ req' = [req EXCEPT ![r] = Responded(rec, "LookupFailed")]
                    /\ queue' = Tail(queue)
               ELSE IF verdict # "refund"
               THEN /\ req' = [req EXCEPT ![r] = Responded([rec EXCEPT !.pstatus = status], verdict)]
                    /\ queue' = Tail(queue)
               ELSE /\ req' = [req EXCEPT ![r] = [rec EXCEPT !.pstatus = status,
                                                            !.row = payment.id,
                                                            !.pamount = payment.amount]]
                    /\ queue' = Append(Tail(queue), Q(r, "findOrder", 0, "none"))
    /\ NoWrite
    /\ UNCHANGED << nextId, fkItems, web >>

\* Order.findById and its callback: the owner of the order is credited
FindOrder(r) ==
    /\ AtHead(r, "findOrder")
    /\ Ran(r, "findOrder")
    /\ \E fail \in BOOLEAN :
        /\ Fails(fail)
        /\ LET rec == req[r]
               rows == {o \in working.orders : o.id = rec.orderId}
           IN  IF fail
               THEN /\ req' = [req EXCEPT ![r] = Responded(rec, "LookupFailed")]
                    /\ queue' = Tail(queue)
               ELSE IF rows = {}
               THEN /\ req' = [req EXCEPT ![r] = Responded(rec, "OrderNotFound")]
                    /\ queue' = Tail(queue)
               ELSE \E order \in rows :
                    /\ req' = [req EXCEPT ![r] =
                                 CreditCall(rec, order.user, rec.pamount, "refund", rec.pref)]
                    /\ queue' = Tail(queue) \o CreditQueries(r, rec.pamount)
    /\ NoWrite
    /\ UNCHANGED << nextId, fkItems, web >>

\* the callback handed to Wallet.creditWithType by refundPayment
RefundCredited(r) ==
    /\ CallbackDue(r)
    /\ req[r].ctl = "refundPayment"
    /\ IF req[r].res # "ok"
       THEN /\ req' = [req EXCEPT ![r] = Responded(req[r], "CreditFailed")]
            /\ queue' = queue
       ELSE /\ req' = [req EXCEPT ![r].st = "run"]
            /\ queue' = Append(queue, Q(r, "markRefunded", 0, "none"))
    /\ UNCHANGED << committed, working, inTxn, nextId, errBudget, ran, fkItems, web >>

\* markRefunded whose failure is reported and then tried again behind the answer
MarkRefunded_Retried(r) ==
    /\ AtHead(r, "markRefunded")
    /\ Ran(r, "markRefunded")
    /\ \E fail \in BOOLEAN :
        /\ Fails(fail)
        /\ IF fail
           THEN /\ req' = [req EXCEPT ![r] = Responded(req[r], "StatusUpdateFailed")]
                /\ queue' = Append(Tail(queue), Q(r, "markRefunded", 0, "none"))
                /\ NoWrite
           ELSE /\ req' = [req EXCEPT ![r] = Responded(req[r], "success")]
                /\ queue' = Tail(queue)
                /\ Write([working EXCEPT !.payments =
                            { IF p.id = req[r].row THEN [p EXCEPT !.status = "refunded"] ELSE p
                              : p \in @ }])
    /\ UNCHANGED << nextId, fkItems, web >>

\* Payment.markRefunded: UPDATE payments SET status = 'refunded' WHERE id = ?
MarkRefunded(r) ==
    /\ AtHead(r, "markRefunded")
    /\ Ran(r, "markRefunded")
    /\ \E fail \in BOOLEAN :
        /\ Fails(fail)
        /\ IF fail
           THEN /\ req' = [req EXCEPT ![r] = Responded(req[r], "StatusUpdateFailed")]
                /\ NoWrite
           ELSE /\ req' = [req EXCEPT ![r] = Responded(req[r], "success")]
                /\ Write([working EXCEPT !.payments =
                            { IF p.id = req[r].row THEN [p EXCEPT !.status = "refunded"] ELSE p
                              : p \in @ }])
    /\ queue' = Tail(queue)
    /\ UNCHANGED << nextId, fkItems, web >>

\* top-up confirmations and refund requests arrive while others are in flight; a
\* callback that is due runs before anything else does
TopupRefs == {NetsRef, "NETS-REF-0"}
NextWallet ==
    \E r \in Reqs :
        \/ NoCallbackDue /\ \E ref \in TopupRefs : ConfirmNetsTopup(r, ref, NaN)
        \/ NoCallbackDue /\ \E capture \in PaypalTopupCaptures : CapturePaypalTopup(r, capture)
        \/ NoCallbackDue /\ \E orderId \in RefundOrders \cup {NaN} : RefundPayment(r, orderId)
        \/ TopupCredited(r)
        \/ RefundCredited(r)
        \/ NoCallbackDue /\ FindTopup(r)
        \/ NoCallbackDue /\ MarkCompleted(r)
        \/ NoCallbackDue /\ InsertTopup(r)
        \/ NoCallbackDue /\ FindPayment(r)
        \/ NoCallbackDue /\ FindOrder(r)
        \/ NoCallbackDue /\ MarkRefunded(r)
        \/ NoCallbackDue /\ Begin(r)
        \/ NoCallbackDue /\ SelectWallet(r)
        \/ NoCallbackDue /\ UpdateWallet(r)
        \/ NoCallbackDue /\ InsertLedger(r)
        \/ NoCallbackDue /\ Commit(r)
        \/ NoCallbackDue /\ Rollback(r)

SpecWallet == InitWallet /\ [][NextWallet]_vars

\* ------------------------------------------------------------- C12
\* committed ledger rows of one type that carry one reference
LedgerRows(type, reference) ==
    {i \in 1..Len(committed.ledger) :
        committed.ledger[i].type = type /\ committed.ledger[i].ref.tag = reference}
\* every request made so far was served by one of these handlers for this reference
OnlyRequests(ctls, ref) ==
    \A r \in Reqs : req[r].st # "idle" => (req[r].ctl \in ctls /\ req[r].pref = ref)

\* C12: for every provider reference, under every interleaving of top-up
\* confirmations, at most one committed 'topup' ledger row carries the reference,
\* and when only confirmations of that reference were made the balance has grown
\* by the top-up amount at most once.
C12_TopupCreditedOnce ==
    /\ Cardinality(LedgerRows("topup", NetsReference(NetsRef))) <= 1
    /\ Cardinality(LedgerRows("topup", PaypalReference(PaypalCaptureId))) <= 1
    /\ \A ref \in {NetsRef, PaypalCaptureId} :
         (Quiet /\ OnlyRequests({"confirmNetsTopup", "capturePaypalTopup"}, ref))
            => committed.bal[Shopper] <= InitBalance[Shopper] + 5000

\* ------------------------------------------------------------- C16
\* C16: under every interleaving of refund requests at most one committed 'refund'
\* ledger row carries refund:order:<orderId>, and when only refunds of that order
\* were asked for the owner's balance has grown by payment.amount at most once.
C16_RefundedOnce ==
    \A orderId \in RefundOrders :
        /\ Cardinality(LedgerRows("refund", RefundReference(orderId))) <= 1
        /\ (Quiet /\ OnlyRequests({"refundPayment"}, RefundReference(orderId)))
              => committed.bal[Shopper] <= InitBalance[Shopper] + 2000

\* ------------------------------------------------------------- C17
\* C17: a refund request that found the payment of its order already refunded, or
\* found no payments row, is answered with a rejection and has run nothing but
\* its lookup: it has written no balance, no ledger row and no payments row, and
\* when it is the only request made the tables are as they were.
C17_RejectedRefundChangesNothing ==
    \A r \in Reqs :
        (req[r].ctl = "refundPayment" /\ req[r].pstatus \in {"refunded", "missing"}) =>
            /\ req[r].st = "done"
            /\ req[r].http = (IF req[r].pstatus = "refunded" THEN "AlreadyRefunded" ELSE "NotFound")
            /\ ran[r] = {"findPayment"}
            /\ Drained(r)
            /\ LedgerOf(working, r) = {} /\ LedgerOf(committed, r) = {}
            /\ (\A r2 \in Reqs \ {r} : req[r2].st = "idle")
                  => (committed = SeededDb /\ working = SeededDb)

\* both kinds of rejected refund have happened: order 2 (refunded) and order 3 (no row)
C17_Witness ==
    \E r, r2 \in Reqs :
        /\ req[r].ctl = "refundPayment" /\ req[r].orderId = 2
        /\ req[r].http = "AlreadyRefunded"
        /\ req[r2].ctl = "refundPayment" /\ req[r2].orderId = 3
        /\ req[r2].http = "NotFound"
        /\ committed.bal[Shopper] = InitBalance[Shopper]

\* ------------------------------------------------------------- checkout: session and providers
\* calculateTotals(cartItems, deliveryFee).totalWithFees; the same figure in cents
\* is what Stripe is asked for
TotalWithFees(cart, deliveryFee) == Round2(TotalBeforeRound(cart) + deliveryFee)

\* the cart the shopper fills, and the two delivery methods of the checkout form
PayCarts == { << Line(1, 1, 2000) >> }
PayMethods == {"pickup", "delivery"}

ExpectedTotal == TotalWithFees(session.cart, session.pendingCheckout.deliveryFee)
ReadyToPay == session.pendingCheckout.set /\ session.cart # << >>
\* the shopper pays through one channel: no reference has been handed out yet
NoReferenceYet == \A ref \in ProviderRefs : provider[ref].status = "none"

\* addToCart, as far as checkout is concerned: the session cart gets its lines
AddToCart(cart) ==
    /\ session.cart = << >>
    /\ session' = [session EXCEPT !.cart = cart]
    /\ UNCHANGED << committed, working, inTxn, nextId, queue, req, errBudget, ran, fkItems,
                    provider, stream, feeCall >>

\* what JavaScript takes for false among the address values: undefined, null, ''
NoAddress == {"undefined", "null", ""}
Blank == "   "
Padded == " 7 Side Rd "
\* address.trim()
Trim(address) ==
    IF address = Blank THEN "" ELSE IF address = Padded THEN "7 Side Rd" ELSE address
\* a || b on address values
OrElse(a, b) == IF a \in NoAddress THEN b ELSE a

\* sanitiseDeliveryAddress (no modelled address is longer than 255 characters)
sanitiseDeliveryAddress(address) ==
    IF address \in NoAddress THEN "null"
    ELSE IF Trim(address) = "" THEN "null" ELSE Trim(address)

\* the delivery details a form leads to: method, address, and whether the handler
\* goes on with them
DeliveryDetails(bodyMethod, bodyAddress, fallback) ==
    LET deliveryMethod == IF bodyMethod = "delivery" THEN "delivery" ELSE "pickup"
        providedAddress == OrElse(sanitiseDeliveryAddress(bodyAddress), fallback)
        deliveryAddress == IF deliveryMethod = "delivery"
                           THEN sanitiseDeliveryAddress(providedAddress) ELSE "null"
    IN  [ deliveryMethod |-> deliveryMethod, deliveryAddress |-> deliveryAddress,
          accepted |-> ~(deliveryMethod = "delivery" /\ deliveryAddress = "null") ]

\* startPayment: the delivery details are kept in the session with their fee; a
\* delivery without an address is sent back to the form
StartPayment(bodyMethod, bodyAddress) ==
    /\ session.cart # << >>
    /\ LET d == DeliveryDetails(bodyMethod, bodyAddress, session.userAddress)
       IN  session' =
             IF ~d.accepted THEN session
             ELSE [session EXCEPT !.pendingCheckout =
                     [ set |-> TRUE,
                       deliveryFee |-> computeDeliveryFee("0", d.deliveryMethod, "undefined"),
                       deliveryMethod |-> d.deliveryMethod,
                       deliveryAddress |-> d.deliveryAddress ]]
    /\ UNCHANGED << committed, working, inTxn, nextId, queue, req, errBudget, ran, fkItems,
                    provider, stream, feeCall >>

\* createPaypalOrder / createStripePaymentIntent: the provider is asked for the
\* total of the moment and hands out a reference
CreateIntent(ref) ==
    /\ ReadyToPay
    /\ NoReferenceYet
    /\ provider' = [provider EXCEPT ![ref] = [status |-> "open", amount |-> ExpectedTotal]]
    /\ UNCHANGED << committed, working, inTxn, nextId, queue, req, errBudget, ran, fkItems,
                    session, stream, feeCall >>

\* createStripePaynow: as above, and the intent is remembered in the session
CreateStripePaynow ==
    /\ ReadyToPay
    /\ NoReferenceYet
    /\ provider' = [provider EXCEPT ![PaynowIntentId] =
                      [status |-> "open", amount |-> ExpectedTotal]]
    /\ session' = [session EXCEPT !.stripePaynow =
                     [ set |-> TRUE, paymentIntentId |-> PaynowIntentId,
                       total |-> ExpectedTotal ]]
    /\ UNCHANGED << committed, working, inTxn, nextId, queue, req, errBudget, ran, fkItems,
                    stream, feeCall >>

\* generateNetsQr: a QR code for the total; a refused QR clears netsPending
GenerateNetsQr(issued) ==
    /\ ReadyToPay
    /\ NoReferenceYet
    /\ IF issued
       THEN /\ provider' = [provider EXCEPT ![NetsRef] =
                              [status |-> "open", amount |-> ExpectedTotal]]
            /\ session' = [session EXCEPT !.netsPending =
                             [ set |-> TRUE, total |-> ExpectedTotal,
                               txnRetrievalRef |-> NetsRef ]]
       ELSE /\ provider' = provider
            /\ session' = [session EXCEPT !.netsPending = NoNetsPending]
    /\ UNCHANGED << committed, working, inTxn, nextId, queue, req, errBudget, ran, fkItems,
                    stream, feeCall >>

\* the shopper pays what the provider asked for under this reference
ShopperPays(ref) ==
    /\ provider[ref].status = "open"
    /\ provider' = [provider EXCEPT ![ref].status = "paid"]
    /\ UNCHANGED << committed, working, inTxn, nextId, queue, req, errBudget, ran, fkItems,
                    session, stream, feeCall >>

\* ------------------------------------------------------------- checkout: the confirm handlers
\* the guards every payment handler starts with
Precheck ==
    IF ~session.pendingCheckout.set THEN "NoPendingCheckout"
    ELSE IF session.cart = << >> THEN "EmptyCart"
    ELSE "ok"

\* a request body that states no total
NoBody == NaN

\* a bug: the total the request states is taken for the expected one
expectedTotalOf_FromBody(body) == IF IsFinite(body) THEN body ELSE ExpectedTotal

\* const { totalWithFees } = calculateTotals(cartItems, pending.deliveryFee || 0):
\* nothing of the request body goes into it
expectedTotalOf(body) == ExpectedTotal

\* what a handler knows when it decides: its name, the reference it was given, and
\* the status and amount the provider reported to it
Handler(ctl, ref, status, amount, body) ==
    [IdleReq EXCEPT !.ctl = ctl, !.pref = ref, !.pstatus = status, !.pamount = amount,
                    !.expected = expectedTotalOf(body), !.body = body, !.user = Shopper,
                    !.stock0 = committed.stock]

\* the handler answers without calling the order model
Refuse(r, h, response) ==
    /\ req' = [req EXCEPT ![r] = Responded(h, response)]
    /\ queue' = queue

\* Order.create / Order.createWithWallet with the session's cart and pending fee
SettleWith(r, h, kind, details) ==
    /\ req' = [req EXCEPT ![r] =
                 [h EXCEPT !.st = "run", !.kind = kind, !.cart = session.cart,
                           !.fee = details.deliveryFee,
                           !.deliveryMethod = details.deliveryMethod,
                           !.deliveryAddress = details.deliveryAddress]]
    /\ queue' = Append(queue, Q(r, "begin", 0, "none"))
SettleCall(r, h, kind) == SettleWith(r, h, kind, session.pendingCheckout)

\* capturedAmount && capturedAmount !== expectedTotal, negated
PaypalAmountOk(capturedAmount, expectedTotal) ==
    ~(IsFinite(capturedAmount) /\ capturedAmount # expectedTotal)

\* what paypal.captureOrder answers for an approved order
PaypalOutcomes == {"COMPLETED", "COMPLETED-no-amount", "PENDING"}

\* capturePaypalOrder, from the provider's answer on
CapturePaypalOrder(r, orderId, outcome, body) ==
    /\ MayStart(r)
    /\ LET status == IF outcome = "PENDING" THEN "PENDING" ELSE "COMPLETED"
           capturedAmount == IF outcome = "COMPLETED" THEN provider[orderId].amount ELSE NaN
           h == Handler("capturePaypalOrder", orderId, status, capturedAmount, body)
       IN  IF Precheck # "ok"
           THEN Refuse(r, h, Precheck) /\ provider' = provider
           ELSE IF provider[orderId].status # "paid"
           THEN Refuse(r, [h EXCEPT !.pstatus = "throw", !.pamount = NaN], "CaptureFailed")
                /\ provider' = provider
           ELSE IF status # "COMPLETED"
           THEN Refuse(r, h, "NotCompleted") /\ provider' = provider
           ELSE /\ provider' = [provider EXCEPT ![orderId].status = "captured"]
                /\ IF PaypalAmountOk(capturedAmount, h.expected)
                   THEN SettleCall(r, h, "create")
                   ELSE Refuse(r, h, "AmountMismatch")
    /\ UNCHANGED << committed, working, inTxn, nextId, errBudget, ran, fkItems,
                    session, stream, feeCall >>

\* what stripeService.retrievePaymentIntent reports
IntentStatus(id) == IF provider[id].status = "paid" THEN "succeeded" ELSE "requires_action"

\* confirmStripeOrder, from the provider's answer on
ConfirmStripeOrder(r, paymentIntentId, body) ==
    /\ MayStart(r)
    /\ LET h == Handler("confirmStripeOrder", paymentIntentId,
                        IntentStatus(paymentIntentId), provider[paymentIntentId].amount, body)
       IN  IF Precheck # "ok" THEN Refuse(r, h, Precheck)
           ELSE IF provider[paymentIntentId].status = "none"
           THEN Refuse(r, [h EXCEPT !.pstatus = "throw", !.pamount = NaN], "ConfirmFailed")
           ELSE IF h.pstatus # "succeeded" THEN Refuse(r, h, "NotCompleted")
           ELSE IF h.pamount # h.expected THEN Refuse(r, h, "AmountMismatch")
           ELSE SettleCall(r, h, "create")
    /\ UNCHANGED << committed, working, inTxn, nextId, errBudget, ran, fkItems, web >>

\* confirmStripePaynowOrder: the intent must be the one kept in the session
ConfirmStripePaynowOrder(r, paymentIntentId, body) ==
    /\ MayStart(r)
    /\ LET h == Handler("confirmStripePaynowOrder", paymentIntentId,
                        IntentStatus(paymentIntentId), provider[paymentIntentId].amount, body)
       IN  IF Precheck # "ok" THEN Refuse(r, h, Precheck)
           ELSE IF ~session.stripePaynow.set
                   \/ session.stripePaynow.paymentIntentId # paymentIntentId
           THEN Refuse(r, [h EXCEPT !.pstatus = "none", !.pamount = NaN], "SessionMismatch")
           ELSE IF provider[paymentIntentId].status = "none"
           THEN Refuse(r, [h EXCEPT !.pstatus = "throw", !.pamount = NaN], "ConfirmFailed")
           ELSE IF h.pstatus # "succeeded" THEN Refuse(r, h, "pending")
           ELSE IF h.pamount # h.expected THEN Refuse(r, h, "AmountMismatch")
           ELSE SettleCall(r, h, "create")
    /\ UNCHANGED << committed, working, inTxn, nextId, errBudget, ran, fkItems, web >>

\* a bug: the total kept with the QR code is not compared with the cart's
ConfirmNetsPayment_TotalNotCompared(r, txnRetrievalRef, body) ==
    /\ MayStart(r)
    /\ LET h == Handler("confirmNetsPayment", txnRetrievalRef, "none", NaN, body)
       IN  IF Precheck # "ok" THEN Refuse(r, h, Precheck)
           ELSE IF ~session.netsPending.set THEN Refuse(r, h, "NoQrCode")
           ELSE IF txnRetrievalRef # session.netsPending.txnRetrievalRef
           THEN Refuse(r, h, "ReferenceMismatch")
           ELSE SettleCall(r, h, "create")
    /\ UNCHANGED << committed, working, inTxn, nextId, errBudget, ran, fkItems, web >>

\* confirmNetsPayment: the reference and the total are compared with the session's
ConfirmNetsPayment(r, txnRetrievalRef, body) ==
    /\ MayStart(r)
    /\ LET h == Handler("confirmNetsPayment", txnRetrievalRef, "none", NaN, body)
       IN  IF Precheck # "ok" THEN Refuse(r, h, Precheck)
           ELSE IF ~session.netsPending.set THEN Refuse(r, h, "NoQrCode")
           ELSE IF txnRetrievalRef # session.netsPending.txnRetrievalRef
           THEN Refuse(r, h, "ReferenceMismatch")
           ELSE IF session.netsPending.total # h.expected THEN Refuse(r, h, "TotalChanged")
           ELSE SettleCall(r, h, "create")
    /\ UNCHANGED << committed, working, inTxn, nextId, errBudget, ran, fkItems, web >>

\* the payment methods checkout knows, and what a form may send besides
PaymentMethods == {"paypal", "nets", "wallet", "stripe", "stripe_paynow"}
BodyPaymentMethods == PaymentMethods \cup {"cash", "undefined"}

\* a bug: a method checkout does not know is kept as it is
paymentMethodOf_AsGiven(bodyPaymentMethod) == bodyPaymentMethod

\* [...].includes(req.body.paymentMethod) ? req.body.paymentMethod : 'paypal'
paymentMethodOf(bodyPaymentMethod) ==
    IF bodyPaymentMethod \in PaymentMethods THEN bodyPaymentMethod ELSE "paypal"

\* checkout: the delivery details are those of the pending checkout, or those
\* of the form when there is none; every method but 'wallet' is sent back to
\* its own payment page, 'wallet' goes to Order.createWithWallet, and what is
\* left after the five methods goes to Order.create
Checkout(r, bodyPaymentMethod, bodyMethod, bodyAddress) ==
    /\ MayStart(r)
    /\ LET h == [Handler("checkout", "wallet:1", "none", NaN, NoBody)
                   EXCEPT !.paymentMethod = bodyPaymentMethod]
           pending == session.pendingCheckout
           d == IF pending.set
                THEN DeliveryDetails(pending.deliveryMethod, "undefined",
                                     pending.deliveryAddress)
                ELSE DeliveryDetails(bodyMethod, bodyAddress, session.userAddress)
           deliveryFee == IF pending.set THEN pending.deliveryFee
                          ELSE computeDeliveryFee("0", d.deliveryMethod, "undefined")
           details == [ deliveryFee |-> deliveryFee,
                        deliveryMethod |-> d.deliveryMethod,
                        deliveryAddress |-> d.deliveryAddress ]
           paymentMethod == paymentMethodOf(bodyPaymentMethod)
       IN  IF session.cart = << >> THEN Refuse(r, h, "EmptyCart")
           ELSE IF ~d.accepted THEN Refuse(r, h, "NoDeliveryAddress")
           ELSE IF paymentMethod = "paypal" THEN Refuse(r, h, "UsePaypalButton")
           ELSE IF paymentMethod = "nets" THEN Refuse(r, h, "GenerateNetsQr")
           ELSE IF paymentMethod = "stripe" THEN Refuse(r, h, "CompleteStripe")
           ELSE IF paymentMethod = "stripe_paynow" THEN Refuse(r, h, "CompletePaynow")
           ELSE IF paymentMethod = "wallet" THEN SettleWith(r, h, "wallet", details)
           ELSE SettleWith(r, h, "create", details)
    /\ UNCHANGED << committed, working, inTxn, nextId, errBudget, ran, fkItems, web >>

\* checkout with paymentMethod 'wallet'
CheckoutWallet(r, bodyMethod, bodyAddress) == Checkout(r, "wallet", bodyMethod, bodyAddress)

\* the provider name and reference each handler gives to Payment.create
PaymentProvider(ctl) ==
    CASE ctl = "capturePaypalOrder" -> "paypal"
      [] ctl = "confirmStripeOrder" -> "stripe"
      [] ctl = "confirmStripePaynowOrder" -> "stripe_paynow"
      [] ctl = "confirmNetsPayment" -> "nets"
      [] OTHER -> "wallet"
PaymentRef(rec) ==
    IF rec.ctl = "capturePaypalOrder"
    THEN (IF IsFinite(rec.pamount) THEN PaypalCaptureId ELSE "null")
    ELSE rec.pref
PaymentAmount(rec) == IF rec.ctl = "checkout" THEN rec.ret ELSE rec.expected

CheckoutHandlers ==
    {"capturePaypalOrder", "confirmStripeOrder", "confirmStripePaynowOrder",
     "confirmNetsPayment", "checkout"}

\* the callback handed to Order.create / Order.createWithWallet: an error is
\* answered as a failure; otherwise Payment.create is sent off, the session is
\* cleared and the caller is told the purchase succeeded
Settled(r) ==
    /\ CallbackDue(r)
    /\ req[r].ctl \in CheckoutHandlers
    /\ LET rec == req[r]
       IN  IF rec.res # "ok"
           THEN /\ req' = [req EXCEPT ![r] = Responded(rec, "CheckoutFailed")]
                /\ queue' = queue
                /\ session' = session
           ELSE /\ req' = [req EXCEPT ![r] = Responded(rec, "success")]
                /\ queue' = IF rec.orderId # 0 /\ ~(rec.ctl = "checkout" /\ rec.kind = "create")
                            THEN Append(queue, Q(r, "insPayment", 0, "none"))
                            ELSE queue
                /\ session' =
                     [session EXCEPT
                        !.cart = << >>,
                        !.pendingCheckout = NoPendingCheckout,
                        !.netsPending = IF rec.ctl = "confirmNetsPayment"
                                        THEN NoNetsPending ELSE @,
                        !.stripePaynow = IF rec.ctl = "confirmStripePaynowOrder"
                                         THEN NoStripePaynow ELSE @]
    /\ UNCHANGED << committed, working, inTxn, nextId, errBudget, ran, fkItems,
                    provider, stream, feeCall >>

\* Payment.create: INSERT INTO payments; its callback only logs a failure
InsertPayment(r) ==
    /\ AtHead(r, "insPayment")
    /\ Ran(r, "insPayment")
    /\ \E fail \in BOOLEAN :
        /\ Fails(fail)
        /\ IF fail
           THEN NoWrite
           ELSE Write([working EXCEPT !.payments = @ \cup
                         { [ id |-> Cardinality(working.payments) + 1,
                             orderId |-> req[r].orderId,
                             provider |-> PaymentProvider(req[r].ctl), status |-> "paid",
                             amount |-> PaymentAmount(req[r]), ref |-> PaymentRef(req[r]) ] }])
    /\ req' = req
    /\ queue' = Tail(queue)
    /\ UNCHANGED << nextId, fkItems, web >>

\* one shopper, one browser: a request is made when the one before it has been
\* served; the store may fail a query
StripeIntents == {StripeIntentId, PaynowIntentId}
NetsRefs == {NetsRef, "NETS-REF-0"}
Ready == Quiet /\ NoCallbackDue

NextPay ==
    \/ Ready /\ \E cart \in PayCarts : AddToCart(cart)
    \/ Ready /\ \E m \in PayMethods : StartPayment(m, "undefined")
    \/ Ready /\ \E ref \in {PaypalOrderId, StripeIntentId} : CreateIntent(ref)
    \/ Ready /\ CreateStripePaynow
    \/ Ready /\ \E issued \in BOOLEAN : GenerateNetsQr(issued)
    \/ Ready /\ \E ref \in ProviderRefs : ShopperPays(ref)
    \/ \E r \in Reqs :
        \/ Ready /\ \E o \in PaypalOutcomes : CapturePaypalOrder(r, PaypalOrderId, o, NoBody)
        \/ Ready /\ \E id \in StripeIntents : ConfirmStripeOrder(r, id, NoBody)
        \/ Ready /\ \E id \in StripeIntents : ConfirmStripePaynowOrder(r, id, NoBody)
        \/ Ready /\ \E ref \in NetsRefs : ConfirmNetsPayment(r, ref, NoBody)
        \/ Ready /\ CheckoutWallet(r, "pickup", "undefined")
        \/ Settled(r)
        \/ NoCallbackDue /\ InsertPayment(r)
        \/ NoCallbackDue /\ Begin(r)
        \/ NoCallbackDue /\ SelectWallet(r)
        \/ NoCallbackDue /\ SelectStock(r)
        \/ NoCallbackDue /\ InsertOrder(r)
        \/ NoCallbackDue /\ \E k \in 1..MaxLines : UpdateStock(r, k)
        \/ NoCallbackDue /\ \E k \in 1..MaxLines : InsertItem(r, k)
        \/ NoCallbackDue /\ UpdateWallet(r)
        \/ NoCallbackDue /\ InsertLedger(r)
        \/ NoCallbackDue /\ Commit(r)
        \/ NoCallbackDue /\ Rollback(r)

SpecPay == Init /\ [][NextPay]_vars

\* ------------------------------------------------------------- C13
\* the handler was told of a terminal success with an amount that is present and
\* equal to the expected total
CapturedAsExpected(rec) ==
    /\ rec.pstatus \in {"COMPLETED", "succeeded"}
    /\ IsFinite(rec.pamount)
    /\ rec.pamount = rec.expected
SyncHandlers == {"capturePaypalOrder", "confirmStripeOrder"}

\* C13: a PayPal or Stripe card confirmation that was not told of a terminal
\* success with a captured amount present and equal to the expected total calls
\* no model, runs no query, and leaves no orders, order_items or payments row and
\* no stock decrement behind.
C13_SyncCaptureNeedsMatchingAmount ==
    \A r \in Reqs :
        (req[r].ctl \in SyncHandlers /\ req[r].st # "idle" /\ ~CapturedAsExpected(req[r]))
            => /\ req[r].kind = "none"
               /\ ran[r] = {}
               /\ OrdersOf(committed, r) = {}
               /\ ItemsOf(committed, r) = {}
               /\ DecsOf(committed, r) = {}
               /\ \A p \in committed.payments : p.ref # PaymentRef(req[r])

\* ------------------------------------------------------------- C14
AsyncHandlers == {"confirmNetsPayment", "confirmStripePaynowOrder"}

\* C14: whenever confirmNetsPayment or confirmStripePaynowOrder has called
\* Order.create, the handler had before that been answered by the provider, for
\* the reference kept in the session, that the payment succeeded.
C14_AsyncOrderAfterProviderSuccess ==
    \A r \in Reqs :
        (req[r].ctl \in AsyncHandlers /\ req[r].kind = "create")
            => req[r].pstatus = "succeeded"

\* ------------------------------------------------------------- C11
\* the confirmations given one provider reference that have left a committed order
OrdersByReference(ref) ==
    {r \in Reqs : req[r].ctl \in CheckoutHandlers \ {"checkout"} /\ req[r].pref = ref
                  /\ OrdersOf(committed, r) # {}}
PaymentsByReference(ref) == {p \in committed.payments : p.ref = ref}

\* C11: across every sequence of confirm calls, carts refilled to the same total
\* included, each provider reference has produced at most one committed order
\* and at most one committed payments row.
C11_OneOrderPerProviderReference ==
    /\ \A ref \in ProviderRefs : Cardinality(OrdersByReference(ref)) <= 1
    /\ \A ref \in ProviderRefs \cup {PaypalCaptureId} :
            Cardinality(PaymentsByReference(ref)) <= 1

\* ------------------------------------------------------------- C18
\* a settlement attempt that is over: answered, with no query of its own left
SettlementOver(r) ==
    req[r].ctl \in CheckoutHandlers /\ req[r].st = "done" /\ req[r].http # "none" /\ Drained(r)
PaymentsOf(db, r) == {p \in db.payments : req[r].orderId # 0 /\ p.orderId = req[r].orderId}
NothingChangedBy(r) ==
    /\ OrdersOf(committed, r) = {}
    /\ ItemsOf(committed, r) = {}
    /\ DecsOf(committed, r) = {}
    /\ LedgerOf(committed, r) = {}
    /\ PaymentsOf(committed, r) = {}

\* C18: every settlement attempt that is over, on every channel, has either left
\* a committed order with exactly one payments row for it, or has changed
\* nothing; and a caller told that the checkout succeeded has an order with a
\* payments row, also when the store failed a query.
C18_OrderWithPaymentOrNothing ==
    \A r \in Reqs :
        SettlementOver(r) =>
            /\ \/ OrdersOf(committed, r) # {} /\ Cardinality(PaymentsOf(committed, r)) = 1
               \/ NothingChangedBy(r)
            /\ req[r].http = "success" => Cardinality(PaymentsOf(committed, r)) = 1

\* ------------------------------------------------------------- C21
\* C21: when a stream has declared the timeout, its 60th query carried
\* frontend_timeout_status 1 and every query before it carried 0.
C21_LastQueryCarriesTimeoutFlag ==
    stream.lastEvent = "timeout" =>
        /\ Len(stream.queryFlags) >= maxPolls
        /\ stream.queryFlags[maxPolls] = 1
        /\ \A i \in 1..(maxPolls - 1) : stream.queryFlags[i] = 0

\* ------------------------------------------------------------- C22
\* C22: once the client of a stream has disconnected, no step of the stream is a
\* timer tick: the poll count does not grow and no further query is sent, and
\* the timer is not set again.
C22_NoTickAfterClose ==
    [][stream.closed =>
          /\ stream'.pollCount = stream.pollCount
          /\ stream'.queryFlags = stream.queryFlags
          /\ ~stream'.interval]_vars

\* the client went away from a stream whose timer was running, with a query
\* still awaiting its answer
C22_Witness ==
    /\ stream.closed /\ ~stream.interval
    /\ stream.terminalEvents = 0
    /\ stream.pollCount >= 2
    /\ stream.inFlight > 0

\* ------------------------------------------------------------- C23
\* C23: a stream never sends more than 60 provider queries, also when a query
\* takes longer than the timer interval; and a stream whose timer has stopped
\* with every query answered, the client still connected, has emitted a terminal
\* event and ended its response.
C23_AtMostMaxPollsQueries ==
    /\ Len(stream.queryFlags) <= maxPolls
    /\ stream.pollCount <= maxPolls
    /\ (stream.open /\ ~stream.closed /\ ~stream.interval /\ stream.inFlight = 0)
          => (stream.terminalEvents >= 1 /\ stream.endCalls >= 1)

\* ------------------------------------------------------------- C24
\* C24: when the answer written last to a stream is a definitive failure of the
\* provider, the stream has emitted its fail event and stopped its timer on that
\* poll, whatever the poll count.
C24_FailureEndsStream ==
    (stream.lastData = "failure" /\ ~stream.closed) =>
        /\ stream.lastEvent \in {"fail", "success", "error", "timeout"}
        /\ stream.terminalEvents >= 1
        /\ ~stream.interval

\* ------------------------------------------------------------- C25
\* a refund whose credit committed and whose status update failed
StatusUpdateFailed(r) ==
    req[r].ctl = "refundPayment" /\ req[r].http = "StatusUpdateFailed"
\* no other refund of the same order has been asked for
OnlyRefundOfOrder(r) ==
    \A r2 \in Reqs \ {r} : ~(req[r2].ctl = "refundPayment" /\ req[r2].orderId = req[r].orderId)
Alone(r) == \A r2 \in Reqs \ {r} : req[r2].st = "idle"

\* the credit of the request is in the committed ledger: its COMMIT took effect
CreditCommitted(r) == LedgerOf(committed, r) # {}

\* C25: a refund handler whose wallet credit committed and whose update of the
\* payments row failed has answered with the failure and has no query left to
\* run: it has written exactly one refund ledger row of the payment's amount and
\* no payments row; unless another refund of the order was requested the payment
\* is still 'paid', and with no other request made the balance has grown by the
\* amount exactly once.
C25_FailedStatusUpdateIsNotRetried ==
    \A r \in Reqs :
        (StatusUpdateFailed(r) /\ CreditCommitted(r)) =>
            /\ req[r].st = "done" /\ Drained(r)
            /\ req[r].res = "ok"
            /\ Cardinality(LedgerOf(committed, r)) = 1
            /\ \A i \in LedgerOf(committed, r) :
                  /\ committed.ledger[i].type = "refund"
                  /\ committed.ledger[i].amount = req[r].pamount
            /\ OnlyRefundOfOrder(r) =>
                  \A p \in committed.payments : p.id = req[r].row => p.status = "paid"
            /\ Alone(r) =>
                  committed.bal[Shopper] = InitBalance[Shopper] + req[r].pamount

\* the status update of the only request made has failed after its credit
C25_Witness ==
    \E r \in Reqs :
        /\ StatusUpdateFailed(r) /\ Alone(r)
        /\ "commit" \in ran[r] /\ "markRefunded" \in ran[r]
        /\ errBudget = 0

\* ------------------------------------------------------------- C26
\* every payment that is 'refunded' in db is still 'refunded' in db2
StaysRefunded(db, db2) ==
    \A p \in db.payments :
        p.status = "refunded" => \E q \in db2.payments : q.id = p.id /\ q.status = "refunded"
\* the payments that were 'paid' when the requests began
PaidAtFirst == {p.id : p \in {q \in SeededDb.payments : q.status = "paid"}}
\* a refund handler has been told its credit succeeded for this payment, and a
\* committed 'refund' ledger row for the payment's order exists
RefundCreditBehind(p) ==
    /\ \E r \in Reqs :
          /\ req[r].ctl = "refundPayment" /\ req[r].row = p.id
          /\ req[r].res = "ok" /\ "markRefunded" \in ran[r]
    /\ LedgerRows("refund", RefundReference(p.orderId)) # {}

\* C26: a payments row that is 'refunded', in the committed tables or as the
\* connection reads it, is 'refunded' after every step; and a payment that was
\* 'paid' is 'refunded' only when refundPayment has had its credit confirmed and
\* the refund of its order is in the owner's committed ledger.
C26_PaidToRefundedOnly ==
    /\ [][StaysRefunded(committed, committed') /\ StaysRefunded(working, working')]_vars
    /\ [](\A p \in committed.payments :
             (p.status = "refunded" /\ p.id \in PaidAtFirst) => RefundCreditBehind(p))

\* ------------------------------------------------------------- C27
\* `wallet:${req.session.user.id}` for the one shopper
WalletProviderRef == "wallet:1"
\* the payments row a wallet checkout is to leave for its order
IsWalletPayment(p, r) ==
    /\ p.provider = "wallet" /\ p.status = "paid" /\ p.ref = WalletProviderRef
    /\ \E o \in OrdersOf(committed, r) : p.amount = o.total

\* C27: a wallet checkout of a cart that is not empty calls createWithWallet;
\* when it has answered success and its queries are done, the order it created
\* has exactly one payments row, with provider 'wallet', status 'paid', the
\* order's total and reference 'wallet:<userId>'; when createWithWallet failed
\* it has no payments row and the callback leaves the session as it was.
C27_WalletCheckoutRecordsPayment ==
    /\ [](\A r \in Reqs :
            (req[r].ctl = "checkout" /\ SettlementOver(r) /\ req[r].cart # << >>) =>
                /\ req[r].kind = "wallet"
                /\ req[r].http = "success" =>
                      /\ Cardinality(PaymentsOf(committed, r)) = 1
                      /\ \A p \in PaymentsOf(committed, r) : IsWalletPayment(p, r)
                /\ req[r].http # "success" => PaymentsOf(committed, r) = {})
    /\ [][\A r \in Reqs :
            (Settled(r) /\ req[r].ctl = "checkout" /\ req[r].res # "ok")
                => (session' = session /\ queue' = queue)]_vars

\* ------------------------------------------------------------- orders afterwards
\* what the tables and the session hold once orders exist: delivery details,
\* product prices, order items
AccountAddresses == {AccountAddress, Blank, ""}
NewPrices == {2000, 2500}
BodyAddresses == {"undefined", "", Blank, Padded}

\* an address that is there: not null, not undefined, at least one character
NonEmpty(address) == address \notin NoAddress

\* addToCart: the product row is read and its price goes into the cart line
AddPricedToCart(productId) ==
    /\ session.cart = << >>
    /\ session' = [session EXCEPT
                     !.cart = << Line(productId, 1, working.prices[productId]) >>]
    /\ UNCHANGED << committed, working, inTxn, nextId, queue, req, errBudget, ran, fkItems,
                    provider, stream, feeCall >>

\* a bug: the new price is written to the items already sold as well
UpdateProduct_Retroactive(productId, price) ==
    /\ \E fail \in BOOLEAN :
        /\ Fails(fail)
        /\ IF fail THEN NoWrite
           ELSE Write([working EXCEPT
                         !.prices[productId] = price,
                         !.items = { IF i.productId = productId
                                     THEN [i EXCEPT !.price = price] ELSE i : i \in @ }])
    /\ UNCHANGED << nextId, queue, req, ran, fkItems, web >>

\* Product.update: UPDATE products SET ..., price = ? WHERE id = ?
UpdateProduct(productId, price) ==
    /\ \E fail \in BOOLEAN :
        /\ Fails(fail)
        /\ IF fail THEN NoWrite
           ELSE Write([working EXCEPT !.prices[productId] = price])
    /\ UNCHANGED << nextId, queue, req, ran, fkItems, web >>

\* a bug: a delivery with no address to give is written all the same
DeliveryUpdate_AddressNotRequired(order, isAdmin, bodyMethod, bodyAddress) ==
    LET account == working.address[order.user]
        deliveryMethod == IF isAdmin
                          THEN (IF bodyMethod = "delivery" THEN "delivery" ELSE "pickup")
                          ELSE order.deliveryMethod
        requestedAddress == OrElse(sanitiseDeliveryAddress(bodyAddress),
                                   IF account \in NoAddress THEN "null" ELSE account)
    IN  [ deliveryMethod |-> deliveryMethod,
          requestedAddress |-> requestedAddress,
          deliveryAddress |-> IF deliveryMethod = "delivery" THEN requestedAddress
                              ELSE "null",
          deliveryFee |-> computeDeliveryFee("0", deliveryMethod, "false"),
          accepted |-> TRUE ]

\* updateDeliveryDetails, up to its call of Order.updateDelivery: the method is
\* the admin's choice or the order's own, the address the form's or the
\* account's, and a delivery with neither is turned away
DeliveryUpdate(order, isAdmin, bodyMethod, bodyAddress) ==
    LET account == working.address[order.user]
        deliveryMethod == IF isAdmin
                          THEN (IF bodyMethod = "delivery" THEN "delivery" ELSE "pickup")
                          ELSE order.deliveryMethod
        requestedAddress == OrElse(sanitiseDeliveryAddress(bodyAddress),
                                   IF account \in NoAddress THEN "null" ELSE account)
    IN  [ deliveryMethod |-> deliveryMethod,
          requestedAddress |-> requestedAddress,
          deliveryAddress |-> IF deliveryMethod = "delivery" THEN requestedAddress
                              ELSE "null",
          deliveryFee |-> computeDeliveryFee("0", deliveryMethod, "false"),
          accepted |-> ~(deliveryMethod = "delivery" /\ requestedAddress = "null") ]

\* Order.updateDelivery: delivery_fee is assigned before total is, and MySQL
\* reads the assigned value in `total - delivery_fee + ?`
updateDelivery(order, deliveryData) ==
    LET safeFee == SafeDeliveryFee(deliveryData.deliveryFee)
    IN  [order EXCEPT !.deliveryMethod = deliveryData.deliveryMethod,
                      !.deliveryAddress = deliveryData.deliveryAddress,
                      !.fee = safeFee,
                      !.total = order.total - safeFee + safeFee]

\* updateDeliveryDetails: the order and its owner are read, the delivery
\* columns of the order are written, and a shopper's own delivery address is
\* kept in the session
UpdateDeliveryDetails(orderId, isAdmin, bodyMethod, bodyAddress) ==
    /\ \E order \in working.orders :
        /\ order.id = orderId
        /\ LET d == DeliveryUpdate(order, isAdmin, bodyMethod, bodyAddress)
           IN  \E fail \in BOOLEAN :
                /\ Fails(fail)
                /\ IF fail \/ ~d.accepted
                   THEN NoWrite /\ session' = session
                   ELSE /\ Write([working EXCEPT
                                    !.orders = (@ \ {order}) \cup {updateDelivery(order, d)}])
                        /\ session' = IF ~isAdmin /\ d.deliveryMethod = "delivery"
                                      THEN [session EXCEPT !.userAddress = d.requestedAddress]
                                      ELSE session
    /\ UNCHANGED << nextId, queue, req, ran, fkItems, provider, stream, feeCall >>

\* Order.remove: the items of the order, then the order, in one transaction
RemoveOrder(orderId) ==
    /\ \E order \in working.orders : order.id = orderId
    /\ \E fail \in BOOLEAN :
        /\ Fails(fail)
        /\ IF fail THEN NoWrite
           ELSE Write([working EXCEPT
                         !.items = { i \in @ : i.orderId # orderId },
                         !.orders = { o \in @ : o.id # orderId }])
    /\ UNCHANGED << nextId, queue, req, ran, fkItems, web >>

\* a shopper is logged in: the session has the address of the account
InitOrders ==
    /\ \E a \in AccountAddresses :
        /\ committed = [EmptyDb EXCEPT !.address = [u \in Users |-> a]]
        /\ session = [EmptySession EXCEPT !.userAddress = a]
    /\ working = committed
    /\ inTxn = FALSE
    /\ nextId = 1
    /\ queue = << >>
    /\ req = [r \in Reqs |-> IdleReq]
    /\ errBudget = MaxStoreErrors
    /\ ran = [r \in Reqs |-> {}]
    /\ fkItems \in BOOLEAN
    /\ provider = NoProvider
    /\ stream = NoStream
    /\ feeCall = NoFeeCall

\* the order the later operations are tried on, and the product that is sold
OrderIds == {1}
PricedProducts == {1}

\* checkout, delivery updates and removal of orders, one request at a time
NextDelivery ==
    \/ Ready /\ \E p \in PricedProducts : AddPricedToCart(p)
    \/ Ready /\ \E m \in PayMethods, a \in BodyAddresses : StartPayment(m, a)
    \/ Ready /\ \E o \in OrderIds, isAdmin \in BOOLEAN, m \in PayMethods,
                   a \in BodyAddresses : UpdateDeliveryDetails(o, isAdmin, m, a)
    \/ Ready /\ \E o \in OrderIds : RemoveOrder(o)
    \/ \E r \in Reqs :
        \/ Ready /\ \E m \in PayMethods, a \in BodyAddresses : CheckoutWallet(r, m, a)
        \/ Settled(r)
        \/ NoCallbackDue /\ InsertPayment(r)
        \/ NoCallbackDue /\ Begin(r)
        \/ NoCallbackDue /\ SelectWallet(r)
        \/ NoCallbackDue /\ SelectStock(r)
        \/ NoCallbackDue /\ InsertOrder(r)
        \/ NoCallbackDue /\ \E k \in 1..MaxLines : UpdateStock(r, k)
        \/ NoCallbackDue /\ \E k \in 1..MaxLines : InsertItem(r, k)
        \/ NoCallbackDue /\ UpdateWallet(r)
        \/ NoCallbackDue /\ InsertLedger(r)
        \/ NoCallbackDue /\ Commit(r)
        \/ NoCallbackDue /\ Rollback(r)

SpecDelivery == InitOrders /\ [][NextDelivery]_vars

\* orders and what comes after them: price changes, delivery updates by the
\* admin, removal, refund, another order
NextItems ==
    \/ Ready /\ \E p \in PricedProducts : AddPricedToCart(p)
    \/ Ready /\ \E p \in PricedProducts, price \in NewPrices : UpdateProduct(p, price)
    \/ Ready /\ \E o \in OrderIds, m \in PayMethods :
                   UpdateDeliveryDetails(o, TRUE, m, "undefined")
    \/ Ready /\ \E o \in OrderIds : RemoveOrder(o)
    \/ \E r \in Reqs :
        \/ Ready /\ \E m \in PayMethods : CheckoutWallet(r, m, "undefined")
        \/ Ready /\ \E o \in OrderIds : RefundPayment(r, o)
        \/ Settled(r)
        \/ RefundCredited(r)
        \/ NoCallbackDue /\ InsertPayment(r)
        \/ NoCallbackDue /\ FindPayment(r)
        \/ NoCallbackDue /\ FindOrder(r)
        \/ NoCallbackDue /\ MarkRefunded(r)
        \/ NoCallbackDue /\ Begin(r)
        \/ NoCallbackDue /\ SelectWallet(r)
        \/ NoCallbackDue /\ SelectStock(r)
        \/ NoCallbackDue /\ InsertOrder(r)
        \/ NoCallbackDue /\ \E k \in 1..MaxLines : UpdateStock(r, k)
        \/ NoCallbackDue /\ \E k \in 1..MaxLines : InsertItem(r, k)
        \/ NoCallbackDue /\ UpdateWallet(r)
        \/ NoCallbackDue /\ InsertLedger(r)
        \/ NoCallbackDue /\ Commit(r)
        \/ NoCallbackDue /\ Rollback(r)

SpecItems == Init /\ [][NextItems]_vars

\* ------------------------------------------------------------- C28
\* the orders rows, as committed and as the connection reads them
AllOrders == committed.orders \cup working.orders

ItemsKept(db, db2) ==
    \A i \in db.items : \A j \in db2.items :
        (j.orderId = i.orderId /\ j.line = i.line) =>
            (j.quantity = i.quantity /\ j.price = i.price /\ j.productId = i.productId)

\* C29: no step changes the quantity or the unit price of an order_items row
\* that exists before and after it, in the committed tables or as the
\* connection reads them: a row is inserted once and at most deleted.
C29_OrderItemsNeverChange ==
    [][ItemsKept(committed, committed') /\ ItemsKept(working, working')]_vars

\* an item was sold at a price the product no longer has, and its order has
\* had its delivery changed and has been refunded
C29_Witness ==
    \E i \in committed.items :
        /\ i.price # committed.prices[i.productId]
        /\ \E o \in committed.orders :
              o.id = i.orderId /\ o.deliveryMethod = "delivery"
        /\ \E p \in committed.payments : p.orderId = i.orderId /\ p.status = "refunded"

\* ------------------------------------------------------------- confirm requests
\* two requests reach the handlers before the store has answered the first:
\* the session and the tables are the same for both
BodyTotals == {NoBody, 1, 3500}
NoRequestYet == \A r \in Reqs : req[r].st = "idle"

NextConfirm ==
    \/ NoRequestYet /\ \E cart \in PayCarts : AddToCart(cart)
    \/ NoRequestYet /\ \E m \in PayMethods : StartPayment(m, "undefined")
    \/ NoRequestYet /\ \E ref \in {PaypalOrderId, StripeIntentId} : CreateIntent(ref)
    \/ NoRequestYet /\ CreateStripePaynow
    \/ NoRequestYet /\ \E issued \in BOOLEAN : GenerateNetsQr(issued)
    \/ NoRequestYet /\ \E ref \in ProviderRefs : ShopperPays(ref)
    \/ \E r \in Reqs, body \in BodyTotals :
        \/ \E o \in PaypalOutcomes : CapturePaypalOrder(r, PaypalOrderId, o, body)
        \/ \E id \in StripeIntents : ConfirmStripeOrder(r, id, body)
        \/ \E id \in StripeIntents : ConfirmStripePaynowOrder(r, id, body)
        \/ \E ref \in NetsRefs : ConfirmNetsPayment(r, ref, body)
        \/ \E m \in PayMethods : CheckoutWallet(r, m, "undefined")

SpecConfirm == Init /\ [][NextConfirm]_vars

\* ------------------------------------------------------------- C30
\* what the handler did with the request: the refusal it answered, or the call
\* of the order model
Decision(r) == IF req[r].kind = "none" THEN req[r].http ELSE "settle"
\* the total Order.create computes from what the handler handed it
TotalAsked(r) == IF req[r].kind = "none" THEN NaN ELSE FinalTotal(req[r].cart, req[r].fee)
\* the same handler, the same provider reference, the same provider answer
SameConfirm(r1, r2) ==
    /\ req[r1].ctl # "none" /\ req[r1].ctl = req[r2].ctl
    /\ req[r1].pref = req[r2].pref
    /\ req[r1].pstatus = req[r2].pstatus /\ req[r1].pamount = req[r2].pamount
    /\ session.pendingCheckout.set

\* C30: two requests to the same handler made on the same session cart and
\* pending checkout, with the same provider reference and the same provider
\* answer, expect the same total, are both refused with the same answer or both
\* handed to the order model, and then ask for the same order total, which is
\* the one of the session cart and the pending delivery fee, whatever total the
\* request bodies state.
C30_TotalFromServerStateOnly ==
    \A r1, r2 \in Reqs :
        SameConfirm(r1, r2) =>
            /\ req[r1].expected = req[r2].expected
            /\ Decision(r1) = Decision(r2)
            /\ TotalAsked(r1) = TotalAsked(r2)
            /\ req[r1].kind # "none" =>
                  TotalAsked(r1) = FinalTotal(session.cart, session.pendingCheckout.deliveryFee)

\* a card payment confirmed twice with bodies that state different totals, both
\* handed to the order model with the delivery fee of the pending checkout
C30_Witness ==
    /\ SameConfirm(1, 2)
    /\ req[1].ctl = "confirmStripeOrder"
    /\ req[1].body # req[2].body /\ IsFinite(req[2].body)
    /\ Decision(1) = "settle" /\ Decision(2) = "settle"
    /\ req[1].fee = DELIVERY_FEE

\* ------------------------------------------------------------- C31
\* the amount the QR code of the NETS reference was generated for
QrAmount == provider[NetsRef].amount

\* C31: a confirmNetsPayment request that called the order model carried the
\* reference the QR code was stored under and found the total of the cart and
\* pending fee equal to the amount the QR code was generated for; every order
\* and payments row it leaves has that amount; a request answered with a
\* reference mismatch or a changed total has called nothing and left no row.
C31_NetsOrderForQrAmount ==
    \A r \in Reqs :
        req[r].ctl = "confirmNetsPayment" =>
            /\ req[r].kind # "none" =>
                  /\ req[r].pref = NetsRef
                  /\ req[r].expected = QrAmount
                  /\ TotalWithFees(req[r].cart, req[r].fee) = QrAmount
                  /\ \A o \in OrdersOf(committed, r) \cup OrdersOf(working, r) :
                        o.total = QrAmount
                  /\ \A p \in PaymentsOf(committed, r) \cup PaymentsOf(working, r) :
                        p.amount = QrAmount
            /\ req[r].http \in {"ReferenceMismatch", "TotalChanged"} =>
                  /\ req[r].kind = "none"
                  /\ OrdersOf(committed, r) \cup OrdersOf(working, r) = {}
                  /\ PaymentsOf(committed, r) \cup PaymentsOf(working, r) = {}

\* the delivery method was changed after the QR code was made, and the
\* confirmation was turned away with nothing written
C31_Witness ==
    \E r \in Reqs :
        /\ req[r].ctl = "confirmNetsPayment" /\ req[r].http = "TotalChanged"
        /\ req[r].pref = NetsRef
        /\ req[r].expected # QrAmount
        /\ committed.orders = {} /\ committed.payments = {}

\* ------------------------------------------------------------- the cart
MAX_CART_QTY == 9999
MaxCartOps == 4         \* cart requests served in one behaviour
UnknownProduct == 3
\* parseInt(req.body.quantity, 10): not a number, or the number
CartQuantities == {NaN, 0 - 1, 0, 1, 2, 10000}
CartStocks == {0, 1, 3, 10000}
Min(a, b) == IF a <= b THEN a ELSE b
Max(a, b) == IF a >= b THEN a ELSE b

\* a bug: only the first line of the cart is looked at
findCartItem_FirstLineOnly(cart, productId) ==
    IF cart # << >> /\ cart[1].productId = productId THEN 1 ELSE 0

\* findCartItem: the index of the first line of the product, 0 when there is none
findCartItem(cart, productId) ==
    IF \E i \in 1..Len(cart) : cart[i].productId = productId
    THEN CHOOSE i \in 1..Len(cart) :
            /\ cart[i].productId = productId
            /\ \A j \in 1..(i - 1) : cart[j].productId # productId
    ELSE 0

\* cart.filter(cartItem => cartItem.productId !== productId)
RECURSIVE WithoutProduct(_, _)
WithoutProduct(cart, productId) ==
    IF cart = << >> THEN << >>
    ELSE IF Head(cart).productId = productId THEN WithoutProduct(Tail(cart), productId)
    ELSE << Head(cart) >> \o WithoutProduct(Tail(cart), productId)

\* cartStore.save: the rows of user_carts are replaced by the valid lines
RECURSIVE StoredRows(_)
StoredRows(cart) ==
    IF cart = << >> THEN << >>
    ELSE (IF IsFinite(Head(cart).quantity) /\ Head(cart).quantity > 0
          THEN << [productId |-> Head(cart).productId, quantity |-> Head(cart).quantity] >>
          ELSE << >>) \o StoredRows(Tail(cart))

\* hydrateCart, for stored rows: a line per row whose product exists, at the
\* product's price of the moment
RECURSIVE HydratedLines(_, _)
HydratedLines(rows, db) ==
    IF rows = << >> THEN << >>
    ELSE (IF Head(rows).productId \in Products
          THEN << Line(Head(rows).productId, Head(rows).quantity,
                       db.prices[Head(rows).productId]) >>
          ELSE << >>) \o HydratedLines(Tail(rows), db)

\* hydrateCart: a session that has a cart keeps it; one that has none gets the
\* stored one, or an empty one when the store cannot be read
hydrateCart(sess, db, loadFails) ==
    IF ~sess.cartAbsent THEN sess.cart
    ELSE IF loadFails THEN << >>
    ELSE HydratedLines(db.userCarts, db)

\* the session once a cart request has used the cart
WithCart(cart) ==
    [session EXCEPT !.cart = cart, !.cartAbsent = FALSE, !.cartOps = @ + 1]

\* persistCartIfNeeded; a failed save is rolled back and only logged
Persist(cart, saveFails) ==
    IF saveFails THEN NoWrite ELSE Write([working EXCEPT !.userCarts = StoredRows(cart)])

\* what may go wrong with the store during one cart request
CartFailures == {"none", "load", "select", "save"}
CartOpDue == session.cartOps < MaxCartOps
CartFrame == UNCHANGED << nextId, queue, req, ran, fkItems, provider, stream, feeCall >>

\* addToCart
addToCart(productId, parsed) ==
    /\ CartOpDue
    /\ \E failure \in CartFailures :
        /\ Fails(failure # "none")
        /\ LET quantity == IF parsed = NaN \/ parsed = 0 THEN 1 ELSE parsed
               cart == hydrateCart(session, working, failure = "load")
               found == productId \in Products /\ failure # "select"
               existing == findCartItem(cart, productId)
               existingQty == IF existing = 0 THEN 0 ELSE cart[existing].quantity
               remainingStock == IF found THEN Max(0, working.stock[productId]) ELSE 0
               maxTotalAllowed == Min(remainingStock, MAX_CART_QTY)
               allowedToAdd == Max(0, maxTotalAllowed - existingQty)
               finalAdd == Min(quantity, allowedToAdd)
               newCart == IF existing # 0
                          THEN [cart EXCEPT ![existing] =
                                  Line(productId, existingQty + finalAdd,
                                       working.prices[productId])]
                          ELSE Append(cart, Line(productId, finalAdd,
                                                 working.prices[productId]))
           IN  IF productId = NaN
               THEN /\ session' = [session EXCEPT !.cartOps = @ + 1]
                    /\ NoWrite
               ELSE IF ~found \/ finalAdd <= 0
               THEN /\ session' = WithCart(cart)
                    /\ NoWrite
               ELSE /\ session' = WithCart(newCart)
                    /\ Persist(newCart, failure = "save")
    /\ CartFrame

\* updateCartItem: a quantity that is no number or not positive removes the
\* line; any other is cut to Math.max(1, Math.min(MAX_CART_QTY, available))
updateCartItem(productId, quantity) ==
    /\ CartOpDue
    /\ \E failure \in CartFailures :
        /\ Fails(failure # "none")
        /\ LET cart == hydrateCart(session, working, failure = "load")
               item == findCartItem(cart, productId)
               removed == WithoutProduct(cart, productId)
               available == working.stock[productId]
               maxAllowed == Max(1, Min(MAX_CART_QTY, available))
               targetQty == Min(quantity, maxAllowed)
               newCart == [cart EXCEPT ![item].quantity = targetQty]
           IN  IF productId = NaN \/ item = 0
               THEN /\ session' = WithCart(cart)
                    /\ NoWrite
               ELSE IF ~IsFinite(quantity) \/ quantity <= 0
               THEN /\ session' = WithCart(removed)
                    /\ Persist(removed, failure = "save")
               ELSE IF failure = "select"
               THEN /\ session' = WithCart(cart)
                    /\ NoWrite
               ELSE /\ session' = WithCart(newCart)
                    /\ Persist(newCart, failure = "save")
    /\ CartFrame

\* removeCartItem
removeCartItem(productId) ==
    /\ CartOpDue
    /\ \E failure \in {"none", "load", "save"} :
        /\ Fails(failure # "none")
        /\ LET cart == hydrateCart(session, working, failure = "load")
               removed == WithoutProduct(cart, productId)
           IN  IF productId = NaN
               THEN /\ session' = WithCart(cart)
                    /\ NoWrite
               ELSE /\ session' = WithCart(removed)
                    /\ IF Len(removed) = Len(cart) THEN NoWrite
                       ELSE Persist(removed, failure = "save")
    /\ CartFrame

\* logout and login: the new session has no cart until a request hydrates it
LoginAgain ==
    /\ ~session.cartAbsent
    /\ session' = [session EXCEPT !.cart = << >>, !.cartAbsent = TRUE]
    /\ UNCHANGED << committed, working, inTxn, nextId, queue, req, errBudget, ran, fkItems,
                    provider, stream, feeCall >>

\* Product.update, as far as the cart is concerned: the quantity on hand is set
SetStock(productId, quantity) ==
    /\ working.stock[productId] # quantity
    /\ Write([working EXCEPT !.stock[productId] = quantity])
    /\ UNCHANGED << nextId, queue, req, errBudget, ran, fkItems, web >>

NextCart ==
    \/ \E p \in Products \cup {UnknownProduct, NaN}, q \in CartQuantities : addToCart(p, q)
    \/ \E p \in Products \cup {NaN}, q \in CartQuantities : updateCartItem(p, q)
    \/ \E p \in Products \cup {NaN} : removeCartItem(p)
    \/ LoginAgain
    \/ \E p \in PricedProducts, q \in CartStocks : SetStock(p, q)

SpecCart == Init /\ [][NextCart]_vars

\* ------------------------------------------------------------- C32
\* C32: the session cart never has two lines with the same product id, after
\* any sequence of addToCart, updateCartItem, removeCartItem and hydration of
\* the stored cart; neither have the rows of user_carts.
C32_OneLinePerProduct ==
    /\ \A i, j \in 1..Len(session.cart) :
          session.cart[i].productId = session.cart[j].productId => i = j
    /\ \A i, j \in 1..Len(working.userCarts) :
          working.userCarts[i].productId = working.userCarts[j].productId => i = j

\* a product was added twice, after another product, and has one line with
\* both quantities, in a cart that came back from the store
C32_Witness ==
    /\ Len(session.cart) = 2
    /\ session.cart[2].quantity = 3
    /\ session.cart[1].productId # session.cart[2].productId
    /\ working.userCarts = StoredRows(session.cart)
    /\ session.cartOps = MaxCartOps

\* ------------------------------------------------------------- C33
\* the line of the product as the request found it, hydration included
LineBefore(p) ==
    LET cart == hydrateCart(session, working, FALSE)
        i == findCartItem(cart, p)
    IN  IF i = 0 THEN Line(p, 0, 0) ELSE cart[i]

\* C33: when a cart request leaves a line whose quantity is not the one it
\* found, that quantity is at least 1 and at most the smaller of the quantity
\* on hand the request read and 9999; so no request gives a line to a product of
\* which nothing is on hand.
C33_CartQuantityWithinStock ==
    [][\A p \in Products :
          LET i == findCartItem(session'.cart, p)
          IN  (/\ session'.cartOps # session.cartOps
               /\ i # 0
               /\ session'.cart[i].quantity # LineBefore(p).quantity)
              => /\ session'.cart[i].quantity >= 1
                 /\ session'.cart[i].quantity <= Min(working.stock[p], MAX_CART_QTY)]_vars

\* ------------------------------------------------------------- checkout
\* the payment form is posted with any payment method, one request at a time
NextCheckout ==
    \/ Ready /\ \E cart \in PayCarts : AddToCart(cart)
    \/ Ready /\ \E m \in PayMethods : StartPayment(m, "undefined")
    \/ \E r \in Reqs :
        \/ Ready /\ \E pm \in BodyPaymentMethods, m \in PayMethods :
                       Checkout(r, pm, m, "undefined")
        \/ Settled(r)
        \/ NoCallbackDue /\ InsertPayment(r)
        \/ NoCallbackDue /\ Begin(r)
        \/ NoCallbackDue /\ SelectWallet(r)
        \/ NoCallbackDue /\ SelectStock(r)
        \/ NoCallbackDue /\ InsertOrder(r)
        \/ NoCallbackDue /\ \E k \in 1..MaxLines : UpdateStock(r, k)
        \/ NoCallbackDue /\ \E k \in 1..MaxLines : InsertItem(r, k)
        \/ NoCallbackDue /\ UpdateWallet(r)
        \/ NoCallbackDue /\ InsertLedger(r)
        \/ NoCallbackDue /\ Commit(r)
        \/ NoCallbackDue /\ Rollback(r)

SpecCheckout == Init /\ [][NextCheckout]_vars

\* ------------------------------------------------------------- C34
\* request r is a checkout posted with a payment method other than 'wallet'
NotByWallet(r) == req[r].ctl = "checkout" /\ req[r].paymentMethod # "wallet"

\* C34: a checkout posted with 'paypal', 'nets', 'stripe', 'stripe_paynow', an
\* unknown method or none is answered at once: it calls no order model, sends
\* no query, and leaves the tables, the stock and the session cart as they
\* were; and every order in the tables was made by a wallet checkout whose
\* debit is in the ledger.
C34_CheckoutOrdersOnlyByWallet ==
    /\ [][\A r \in Reqs :
            (req[r].st = "idle" /\ req'[r].st # "idle" /\ req'[r].ctl = "checkout"
               /\ req'[r].paymentMethod # "wallet")
            => /\ req'[r].st = "done" /\ req'[r].kind = "none"
               /\ req'[r].http # "none"
               /\ queue' = queue /\ session' = session
               /\ committed' = committed /\ working' = working]_vars
    /\ [](\A r \in Reqs : NotByWallet(r) =>
             /\ req[r].orderId = 0
             /\ ran[r] = {})
    /\ [](\A o \in committed.orders :
             \E r \in Reqs :
                /\ req[r].ctl = "checkout" /\ req[r].paymentMethod = "wallet"
                /\ req[r].orderId = o.id
                /\ \E i \in LedgerOf(committed, r) :
                      /\ committed.ledger[i].type = "purchase"
                      /\ committed.ledger[i].amount = 0 - o.total)

\* a checkout with a method the form does not know was sent back with the
\* cart still in the session, and a wallet checkout then made the order
C34_Witness ==
    /\ req[1].ctl = "checkout" /\ req[1].paymentMethod = "cash"
    /\ req[1].http = "UsePaypalButton"
    /\ req[2].ctl = "checkout" /\ req[2].paymentMethod = "wallet"
    /\ OrdersOf(committed, 2) # {}
    /\ committed.stock # InitStock

\* ------------------------------------------------------------- C35
\* the orders row of this id in db, if it is the only one
OrderRow(db, id) == CHOOSE o \in db.orders : o.id = id

\* C35: a step that leaves an order in the committed tables with another
\* delivery fee leaves it with its previous total less the previous fee plus
\* the new fee.
C35_UpdateDeliveryKeepsTotalRelation ==
    [][\A o \in committed.orders :
          (\E n \in committed'.orders : n.id = o.id) =>
              LET n == OrderRow(committed', o.id)
              IN  n.total = o.total - o.fee + n.fee]_vars

\* ------------------------------------------------------------- C36
\* C36: no poll callback calls res.write once res.end() has been called or the
\* client's 'close' has been handled.
C36_NoWriteAfterEndOrClose == ~stream.lateWrite


\* ------------------------------------------------------------- callbacks and transactions
\* the three calls with every way in: an empty cart and an amount that is not
\* positive are refused before any transaction, the other inputs reach the store,
\* whose queries may fail, while another call is in flight
CallCarts == ConcCarts \cup {<< >>}
CallAmounts == {0, 5000}

NextCalls ==
    \E r \in Reqs :
        \/ \E u \in Users, cart \in CallCarts : StartCreate(r, u, cart, 0)
        \/ \E u \in Users, cart \in CallCarts : StartCreateWithWallet(r, u, cart, 0)
        \/ \E u \in Users, a \in CallAmounts : StartCreditWithType(r, u, a, "topup", "none")
        \/ RunQuery(r)

SpecCalls == Init /\ [][NextCalls]_vars

\* C37: Order.create, Order.createWithWallet and Wallet.creditWithType call their
\* callback exactly once on every path, and a call that began a transaction has run
\* exactly one successful COMMIT or one ROLLBACK by the time it calls back; a call
\* that has not called back yet still has a query on the connection, nothing ends a
\* transaction twice, and the session has no transaction open once every call's
\* queries have run.
C37_CallbackOnceTransactionEndedOnce ==
    /\ \A r \in Reqs :
        /\ req[r].called <= 1
        /\ req[r].begun <= 1
        /\ req[r].ended <= req[r].begun
        /\ (req[r].st = "done") <=> (req[r].called = 1)
        /\ (req[r].called = 1) => (req[r].ended = req[r].begun)
        /\ (req[r].st = "run") => ~Drained(r)
    /\ (\A r \in Reqs : Drained(r)) => ~inTxn

\* a call whose COMMIT failed has rolled back once and called back once, and a
\* call refused before any transaction has called back as well
C37_Witness ==
    \E r, r2 \in Reqs :
        /\ req[r].res = "CommitError" /\ req[r].called = 1
        /\ req[r].begun = 1 /\ req[r].ended = 1 /\ "commit" \in ran[r]
        /\ req[r2].called = 1 /\ req[r2].begun = 0


\* ------------------------------------------------------------- whose top-up is credited
\* another shopper has a NETS top-up awaiting confirmation as well
OtherShopper == 2
OtherRef == "NETS-REF-2"
TopupDb ==
    [ SeededDb EXCEPT
        !.topups = @ \cup { [ id |-> 2, user |-> OtherShopper, provider |-> "nets",
                               amount |-> 7000, status |-> "pending", ref |-> OtherRef ] } ]

InitTopup ==
    /\ committed = TopupDb
    /\ working = TopupDb
    /\ inTxn = FALSE
    /\ nextId = 4
    /\ queue = << >>
    /\ req = [r \in Reqs |-> IdleReq]
    /\ errBudget = MaxStoreErrors
    /\ ran = [r \in Reqs |-> {}]
    /\ fkItems \in BOOLEAN
    /\ WebIdle

\* the shopper confirms with their own reference, the other shopper's, or one that
\* no row carries, and may state an amount in the request
ConfirmRefs == {NetsRef, OtherRef, "NETS-REF-0"}
BodyAmounts == {NaN, 9000}

NextTopup ==
    \E r \in Reqs :
        \/ NoCallbackDue /\ \E ref \in ConfirmRefs, a \in BodyAmounts : ConfirmNetsTopup(r, ref, a)
        \/ TopupCredited(r)
        \/ NoCallbackDue /\ FindTopup(r)
        \/ NoCallbackDue /\ MarkCompleted(r)
        \/ NoCallbackDue /\ Begin(r)
        \/ NoCallbackDue /\ SelectWallet(r)
        \/ NoCallbackDue /\ UpdateWallet(r)
        \/ NoCallbackDue /\ InsertLedger(r)
        \/ NoCallbackDue /\ Commit(r)
        \/ NoCallbackDue /\ Rollback(r)

SpecTopup == InitTopup /\ [][NextTopup]_vars

\* the row the request's reference names was created by the user of the session
OwnTopup(r) == \E t \in TopupDb.topups : t.ref = req[r].pref /\ t.user = req[r].user
StoredAmount(ref) == (CHOOSE t \in TopupDb.topups : t.ref = ref).amount

\* C38: confirmNetsTopup credits only the user who created the top-up, and the
\* amount of the stored row whatever the request states; a reference of another
\* user's row or of no row is refused after the lookup alone, and while only such
\* requests were made no balance, ledger row or top-up status has changed.
C38_TopupCreditsOwnerStoredAmount ==
    /\ \A r \in Reqs :
        /\ \A i \in LedgerOf(working, r) :
              /\ OwnTopup(r)
              /\ working.ledger[i].user = req[r].user
              /\ working.ledger[i].amount = StoredAmount(req[r].pref)
        /\ (req[r].st # "idle" /\ ~OwnTopup(r)) =>
              /\ ran[r] \subseteq {"findTopup"}
              /\ req[r].kind = "none"
              /\ req[r].st = "done" => req[r].http \in {"NotFound", "LookupFailed"}
    /\ (\A r \in Reqs : req[r].st # "idle" => ~OwnTopup(r)) =>
          (committed = TopupDb /\ working = TopupDb)
    /\ \A t \in committed.topups \cup working.topups : t.user = OtherShopper => t.status = "pending"

\* the other shopper's reference was refused and the shopper's own top-up was
\* credited with the stored 50.00 although both requests stated 90.00
C38_Witness ==
    \E r, r2 \in Reqs :
        /\ req[r].pref = OtherRef /\ req[r].body = 9000 /\ req[r].http = "NotFound"
        /\ req[r2].pref = NetsRef /\ req[r2].body = 9000 /\ req[r2].http = "success"
        /\ \E i \in LedgerOf(committed, r2) : committed.ledger[i].amount = 5000
        /\ committed.bal[Shopper] = SeededDb.bal[Shopper] + 5000


\* ------------------------------------------------------------- captured funds
\* a capturePaypalOrder request whose capture the provider completed
Captured(r) ==
    /\ req[r].ctl = "capturePaypalOrder" /\ req[r].pstatus = "COMPLETED"
    /\ (req[r].kind = "create" \/ req[r].http = "AmountMismatch")
    /\ provider[req[r].pref].status = "captured"

\* C39: once a capturePaypalOrder request whose capture succeeded has answered and
\* its queries have run, an order of that request for the captured amount is
\* committed (the code has no refund or void, so the capture always stands).
C39_NoCaptureWithoutOrder ==
    \A r \in Reqs :
        (Captured(r) /\ req[r].http # "none" /\ Drained(r)) =>
            \E o \in OrdersOf(committed, r) : o.total = provider[req[r].pref].amount

====
